---------------------------- MODULE Spec2Model ----------------------------
(***************************************************************************)
(* Ring doorbell package-thief detector: the motion gate (seen-set and     *)
(* cooldown), the WebRTC frame capture, the detection pipeline and the     *)
(* classifier-response parsing, modelled from the Python sources.          *)
(*                                                                         *)
(* Time is wall-clock seconds (datetime.now()), advanced by the            *)
(* environment between the program's steps.                                *)
(***************************************************************************)
EXTENDS Integers, Sequences, FiniteSets, TLC

VARIABLES
    program,            \* which program runs: the detector, the n8n bridge or the push package
    now,                \* wall clock, seconds
    last_motion_time,   \* self.last_motion_time: dict device_id -> time
    last_ding_ids,      \* last_ding_ids: dict device_id -> set of event ids
    seen_table,         \* per device, the hash table of last_ding_ids[device_id]
    accepted_at,        \* history: per device, the times at which a trigger was accepted
    gate_result,        \* history: what the loop body did with the event it saw last
    last_reject,        \* history: the event the cooldown rejected last
    last_skip_at,       \* history: when an event was last skipped as already seen
    id_order,           \* event source: whether it issues rising or falling event ids
    newest,             \* event source: per device, the id of its newest event
    scanned,            \* per device, whether the scan loop has seen its newest event
    insert_order,       \* history: per device, the ids of its seen-set in insertion order
    trim_cause,         \* history: per device, the id whose insertion caused the last trim
    pending,            \* the scan in progress: its doorbell and the events of its history still to come
    response_text,      \* classifier: response.choices[0].message.content
    api_outcome,        \* classifier: whether chat.completions.create answers or raises
    llm_fn,             \* classifier: the analysis function that was called
    llm_result,         \* classifier: what the call returned or raised
    hm_pc,              \* handle_motion: where the pipeline of the last signal is
    snap_pc,            \* get_snapshot: the await it is suspended at
    ice_state,          \* pc.iceGatheringState
    local_sdp,          \* pc.localDescription.sdp
    session_id,         \* get_snapshot's local session_id
    frame_future,       \* frame_future: pending, result, exception or cancelled
    cap_task,           \* per video track, its _capture_frame task
    cap_reads,          \* per video track, the track.recv() calls its task has completed
    snap_outcome,       \* what the try block of get_snapshot ended with
    snapshot,           \* what get_snapshot returned to handle_motion
    teardown_calls,     \* close_webrtc_stream calls of this get_snapshot call
    pc_close_calls,     \* pc.close() calls of this get_snapshot call
    snapshot_calls,     \* get_snapshot calls of this handle_motion call
    effects,            \* classifier and side-effect calls of this handle_motion call
    snap_failed_at,     \* history: the step of get_snapshot that raised
    teardown_result,    \* history: how close_webrtc_stream ended
    snap_called_at,     \* history: time of the get_snapshot call
    wait_started_at,    \* history: time asyncio.wait_for was entered
    snap_returned_at,   \* history: time get_snapshot returned
    config,             \* CONFIG: whether a Drive folder id, the notifier and the API key are set
    sinks,              \* history: how the upload and the local save of this pipeline ended
    samples_len,        \* AudioFileTrack: len(self.samples)
    position,           \* AudioFileTrack: self.position
    start_time,         \* AudioFileTrack: self._start_time, in clock ticks
    loop_time,          \* asyncio.get_event_loop().time(), in clock ticks
    recv_pc,            \* AudioFileTrack.recv: idle, or suspended in asyncio.sleep
    wake_at,            \* the loop time at which the sleep of recv is due
    frames_returned,    \* history: frames recv has returned
    last_frame,         \* history: the frame recv returned last
    scan_pc,            \* poll loop: the await the monitoring loop is suspended at
    scan_dev,           \* poll loop: index of the doorbell of `for doorbell in doorbells`
    scan_history,       \* poll loop: the events of `for event in history` still to come
    push_pending,       \* push mode: per device, the event delivered but not yet given to on_event
    push_task,          \* push mode: per device and task slot, where that handle_motion task is
    loop_busy,          \* push mode: the task that is inside a blocking call, or NoTask
    push_accepts,       \* history: per device, the times at which the gate accepted a task
    push_last,          \* history: the device and time of the last task the gate rejected
    alert_pc,           \* play_alert_through_doorbell: the await the call is suspended at
    alert_ice,          \* play_alert_through_doorbell: pc.iceGatheringState
    alert_sdp,          \* play_alert_through_doorbell: local_sdp
    alert_session,      \* play_alert_through_doorbell: session_id
    alert_outcome,      \* play_alert_through_doorbell: how the try block was left
    alert_result,       \* what play_alert_through_doorbell returned or raised
    alert_failed_at,    \* history: the step of play_alert_through_doorbell that failed
    alert_teardown_calls,   \* close_webrtc_stream calls of this play_alert call
    alert_close_calls,      \* pc.close() calls of this play_alert call
    alert_teardown_result,  \* history: how close_webrtc_stream ended
    alert_clock,        \* wall clock of the play_alert call, in half seconds
    alert_hold_from,    \* history: time the remote answer was applied
    alert_returned_at,  \* history: time play_alert_through_doorbell returned
    notify_env,         \* the app password and number of recipients of CONFIG, and the interpreter
    notifier,           \* self.notifier: None or an EmailNotifier
    notify_calls,       \* history: notify_* calls made
    notify_last         \* history: the notify_* call made last and how it ended

gate_vars == <<program, now, last_motion_time, last_ding_ids, seen_table, accepted_at,
               gate_result,
               last_reject, last_skip_at>>

trim_vars == <<id_order, newest, scanned, insert_order, trim_cause, pending>>

llm_vars == <<response_text, api_outcome, llm_fn, llm_result>>

snap_vars == <<snap_pc, ice_state, local_sdp, session_id, frame_future, cap_task,
               cap_reads, snap_outcome, snapshot, teardown_calls, pc_close_calls,
               snap_failed_at, teardown_result, snap_called_at, wait_started_at,
               snap_returned_at>>

pipe_vars == <<hm_pc, snapshot_calls, effects, snap_vars, config, sinks>>

audio_vars == <<samples_len, position, start_time, loop_time, recv_pc, wake_at,
                frames_returned, last_frame>>

\* the state of the parts that the gate, the classifier and the capture
\* pipeline do not touch
poll_vars == <<scan_pc, scan_dev, scan_history>>

push_vars == <<push_pending, push_task, loop_busy, push_accepts, push_last>>

alert_vars == <<alert_pc, alert_ice, alert_sdp, alert_session, alert_outcome,
                alert_result, alert_failed_at, alert_teardown_calls,
                alert_close_calls, alert_teardown_result, alert_clock,
                alert_hold_from, alert_returned_at>>

notify_vars == <<notify_env, notifier, notify_calls, notify_last>>

ext_vars == <<audio_vars, poll_vars, push_vars, alert_vars, notify_vars>>

vars == <<gate_vars, trim_vars, llm_vars, pipe_vars, ext_vars>>

-----------------------------------------------------------------------------
(* Program constants *)

\* CONFIG["motion_cooldown"], default 30 (seconds)
motion_cooldown == 30

\* len(last_ding_ids[device_id]) > 100
SeenLimit == 100

\* list(last_ding_ids[device_id])[-50:]
SeenKeep == 50

(* Bounds of the model *)

\* the clock stops advancing here
MaxTime == 31

\* event ids the history of the gate specification draws from: 1..MaxGateId
MaxGateId == 2

\* event ids the event source of the trim specification issues: 1..MaxEventId
MaxEventId == 103

\* longest classifier response text, in tokens
MaxRespLen == 5

\* seconds of wall-clock time a capture pipeline is followed for
MaxPipeTime == 20

\* seconds between two looks at the clock while a capture is followed
PipeTickStep == 5

\* asyncio.wait_for(frame_future, timeout=15)
frame_timeout == 15

\* for _ in range(5): frame = await track.recv()
SkipFrames == 5

\* self.samples_per_frame = 960  (20 ms at 48 kHz)
samples_per_frame == 960

\* sample_rate: int = 48000
sample_rate == 48000

\* recv calls of one track
MaxFrames == 6

\* loop time up to which the caller of recv may pause, in clock ticks
MaxAudioTicks == 12000

\* wall-clock seconds up to which the poll loop is followed
MaxPollTime == 30

Devices == {"D1", "D2"}

GateIds == 1..MaxGateId

EventKinds == {"motion", "ding"}

\* the amounts by which the clock advances between two steps
TickSteps == {5, 26}

-----------------------------------------------------------------------------
(* Python helpers *)

Max(S) == CHOOSE x \in S : \A y \in S : y <= x

\* A set of ints as CPython keeps it: a hash table of size slots (a power of
\* two, the slots numbered from 0), slots giving the key of each taken slot.
\* Nothing is ever removed from a seen-set in place, so no slot holds a dummy
\* entry.  An empty set has a table of 8 slots.
EmptyTable == [size |-> 8, slots |-> << >>]

\* the elements of a set
set_keys(t) == {t.slots[slot] : slot \in DOMAIN t.slots}

\* The slot a key that is not in the table is put into (set_add_entry,
\* set_insert_clean): starting at hash & mask, the slot and, if they do not
\* run past the table, the 9 slots after it are tried in turn; if all are
\* taken the search goes on at (i * 5 + 1 + perturb) & mask with
\* perturb >>= 5.  hash(x) is x for 0 <= x < 2^61 - 1, the ids followed here;
\* a larger id hashes to x mod (2^61 - 1).
RECURSIVE free_slot(_, _, _, _)
free_slot(taken, mask, start, perturb) ==
    LET last == IF start + 9 <= mask THEN start + 9 ELSE start
        free == (start..last) \ taken
    IN IF free # {}
       THEN CHOOSE slot \in free : \A other \in free : slot <= other
       ELSE free_slot(taken, mask,
                      (start * 5 + 1 + perturb \div 32) % (mask + 1),
                      perturb \div 32)

\* the key x is put into the table, which does not hold it
set_insert_clean(into, x) ==
    [size |-> into.size,
     slots |-> into.slots @@
                 (free_slot(DOMAIN into.slots, into.size - 1, x % into.size, x) :> x)]

\* list(s): CPython iterates the hash table by slot, so the list is in slot
\* order, which is neither insertion order nor value order; keys that met at
\* a slot lie in the order in which their insertions probed
list_of_set(t) ==
    LET order == SelectSeq([nth \in 1..t.size |-> nth - 1],
                           LAMBDA slot : slot \in DOMAIN t.slots)
    IN SubSeq([nth \in 1..Len(order) |-> t.slots[order[nth]]], 1, Len(order))

\* the keys lst[lo..hi] are put one after the other into the table: those of
\* the first half, and then into the table they leave those of the second
RECURSIVE insert_all(_, _, _, _)
insert_all(into, lst, lo, hi) ==
    IF lo > hi THEN into
    ELSE IF lo = hi THEN set_insert_clean(into, lst[lo])
    ELSE LET mid == (lo + hi) \div 2
         IN CHOOSE out \in {insert_all(left, lst, mid + 1, hi) :
                                left \in {insert_all(into, lst, lo, mid)}} : TRUE

\* the first power of two from size on that is above minused
RECURSIVE table_size_above(_, _)
table_size_above(size, minused) ==
    IF size > minused THEN size ELSE table_size_above(2 * size, minused)

\* set_table_resize: the keys move, in the order of their slots, into a new
\* table
set_table_resize(old, minused) ==
    LET keys == list_of_set(old)
    IN insert_all([size |-> table_size_above(EmptyTable.size, minused),
                   slots |-> << >>],
                  keys, 1, Len(keys))

\* s.add(x): a new key is put in, and when the table is then three fifths
\* full it is resized for four times its keys
set_add(s, x) ==
    IF x \in set_keys(s) THEN s
    ELSE LET put == set_insert_clean(s, x)
             used == Cardinality(DOMAIN put.slots)
         IN IF used * 5 < (put.size - 1) * 3 THEN put
            ELSE set_table_resize(put, used * 4)

\* lst[-n:]
list_tail(lst, n) ==
    IF Len(lst) <= n THEN lst ELSE SubSeq(lst, Len(lst) - n + 1, Len(lst))

\* lst[lo..hi] are added one after the other to the set: those of the first
\* half, and then to the set they leave those of the second
RECURSIVE add_all(_, _, _, _)
add_all(s, lst, lo, hi) ==
    IF lo > hi THEN s
    ELSE IF lo = hi THEN set_add(s, lst[lo])
    ELSE LET mid == (lo + hi) \div 2
         IN CHOOSE out \in {add_all(left, lst, mid + 1, hi) :
                                left \in {add_all(s, lst, lo, mid)}} : TRUE

\* set(lst): the elements of the list are added, in its order, to an empty set
set_from_list(lst) == add_all(EmptyTable, lst, 1, Len(lst))

-----------------------------------------------------------------------------
(* The gate *)

\* should_process_motion with the comparison turned round
should_process_motion_gt(lmt, device_id, t) ==
    IF device_id \in DOMAIN lmt /\ t - lmt[device_id] > motion_cooldown
    THEN FALSE
    ELSE TRUE

\* should_process_motion that still rejects when exactly the cooldown has elapsed
should_process_motion_le(lmt, device_id, t) ==
    IF device_id \in DOMAIN lmt /\ t - lmt[device_id] <= motion_cooldown
    THEN FALSE
    ELSE TRUE

\* PackageThiefDetector.should_process_motion: TRUE when the motion is to
\* be processed. lmt is the dict self.last_motion_time, t is datetime.now().
should_process_motion(lmt, device_id, t) ==
    IF device_id \in DOMAIN lmt /\ t - lmt[device_id] < motion_cooldown
    THEN FALSE
    ELSE TRUE

\* RingToN8nBridge.should_process: the same check in the bridge
should_process(lmt, device_id, t) ==
    IF device_id \in DOMAIN lmt /\ t - lmt[device_id] < motion_cooldown
    THEN FALSE
    ELSE TRUE

\* the cooldown check of the running program's handle_motion
gate_check(prog, lmt, device_id, t) ==
    IF prog = "bridge" THEN should_process(lmt, device_id, t)
    ELSE should_process_motion(lmt, device_id, t)

\* the stamp written whether the check accepts or rejects
motion_time_after_always(prog, lmt, device_id, t) ==
    [k \in DOMAIN lmt \cup {device_id} |-> IF k = device_id THEN t ELSE lmt[k]]

\* the stamp written for every doorbell instead of the one that triggered
motion_time_after_all(prog, lmt, device_id, t) ==
    IF gate_check(prog, lmt, device_id, t)
    THEN [k \in Devices |-> t]
    ELSE lmt

motion_time_after_nostamp(prog, lmt, device_id, t) == lmt

\* the dict after the cooldown check: written only when it returns True
motion_time_after(prog, lmt, device_id, t) ==
    IF gate_check(prog, lmt, device_id, t)
    THEN [k \in DOMAIN lmt \cup {device_id} |->
            IF k = device_id THEN t ELSE lmt[k]]
    ELSE lmt

\* the guard without the seen-set test
is_new_motion_any(ids, event) ==
    event.kind = "motion"

\* the guard of the loop body: only motion events not seen before
is_new_motion(ids, event) ==
    event.kind = "motion" /\ event.id \notin ids

\* the trim one insertion late
seen_after_add_late(t, event_id) ==
    LET added == set_add(t, event_id)
    IN IF Cardinality(set_keys(added)) > SeenLimit + 1
       THEN set_from_list(list_tail(list_of_set(added), SeenKeep))
       ELSE added

\* last_ding_ids[device_id].add(event_id) followed by the trim; t is the
\* hash table of the set
seen_after_add(t, event_id) ==
    LET added == set_add(t, event_id)
    IN IF Cardinality(set_keys(added)) > SeenLimit
       THEN set_from_list(list_tail(list_of_set(added), SeenKeep))
       ELSE added

NoResult == [dev |-> "none", id |-> 0, was_seen |-> FALSE, handled |-> FALSE,
             accepted |-> FALSE]

NoReject == [dev |-> "none", id |-> 0]

Never == 0 - 1

\* One pass of the body of `for event in history` for one event of one
\* doorbell, up to the first suspension of handle_motion: the seen-set test,
\* the insertion and trim, the call of handle_motion and its cooldown check.
ProcessEvent(d, event) ==
    LET ids == last_ding_ids[d]
        fresh == is_new_motion(ids, event)
        ok == fresh /\ gate_check(program, last_motion_time, d, now)
    IN /\ seen_table' =
            IF fresh
            THEN [seen_table EXCEPT ![d] = seen_after_add(@, event.id)]
            ELSE seen_table
       /\ last_ding_ids' =
            IF fresh
            THEN [last_ding_ids EXCEPT ![d] = set_keys(seen_table'[d])]
            ELSE last_ding_ids
       /\ last_motion_time' =
            IF fresh THEN motion_time_after(program, last_motion_time, d, now)
            ELSE last_motion_time
       /\ accepted_at' =
            IF ok THEN [accepted_at EXCEPT ![d] = @ \cup {now}] ELSE accepted_at
       /\ gate_result' = [dev |-> d, id |-> event.id,
                          was_seen |-> event.kind = "motion" /\ event.id \in ids,
                          handled |-> fresh, accepted |-> ok]
       /\ last_reject' =
            IF fresh /\ ~ok THEN [dev |-> d, id |-> event.id] ELSE last_reject
       /\ last_skip_at' =
            IF event.kind = "motion" /\ event.id \in ids THEN now ELSE last_skip_at

\* the scan loop reaches an event of a doorbell's history
ScanEvent ==
    /\ UNCHANGED <<program, now>>
    /\ UNCHANGED <<trim_vars, llm_vars, pipe_vars, ext_vars>>
    /\ \E d \in Devices, e \in GateIds, k \in EventKinds :
          ProcessEvent(d, [id |-> e, kind |-> k])

\* time passes while the loop is suspended (history fetch, pipeline, sleep)
Tick ==
    /\ UNCHANGED <<program, last_motion_time, last_ding_ids, seen_table, accepted_at,
                   gate_result, last_reject, last_skip_at>>
    /\ UNCHANGED <<trim_vars, llm_vars, pipe_vars, ext_vars>>
    /\ \E dt \in TickSteps :
          /\ now + dt <= MaxTime
          /\ now' = now + dt

Programs == {"detector", "bridge"}

GateInit ==
    /\ program \in Programs
    /\ now = 0
    /\ last_motion_time = << >>
    /\ last_ding_ids = [d \in Devices |-> {}]
    /\ seen_table = [d \in Devices |-> EmptyTable]
    /\ accepted_at = [d \in Devices |-> {}]
    /\ gate_result = NoResult
    /\ last_reject = NoReject
    /\ last_skip_at = Never

\* no `for event in history` loop is running
NoPending == [dev |-> "none", ids |-> << >>]

\* the event source of the trim specification before its first event
TrimIdle ==
    /\ pending = NoPending
    /\ id_order = "rising"
    /\ newest = [d \in Devices |-> 0]
    /\ scanned = [d \in Devices |-> TRUE]
    /\ insert_order = [d \in Devices |-> << >>]
    /\ trim_cause = [d \in Devices |-> 0]

\* no classifier call has been made
LlmIdle ==
    /\ response_text = << >>
    /\ api_outcome = "ok"
    /\ llm_fn = "none"
    /\ llm_result = [kind |-> "none"]

NoSession == "None"

\* the video tracks a doorbell can announce in its answer
Tracks == {1, 2}

NoSinks == [upload |-> "not called", save |-> "not called"]

\* what CONFIG can hold
Configs == [folder : BOOLEAN, notifier : BOOLEAN, api_key : BOOLEAN]

\* no get_snapshot call has been made
SnapIdle ==
    /\ snap_pc = "idle"
    /\ ice_state = "new"
    /\ local_sdp = << >>
    /\ session_id = NoSession
    /\ frame_future = "pending"
    /\ cap_task = [k \in Tracks |-> "none"]
    /\ cap_reads = [k \in Tracks |-> 0]
    /\ snap_outcome = "none"
    /\ snapshot = "pending"
    /\ teardown_calls = 0
    /\ pc_close_calls = 0
    /\ snap_failed_at = "none"
    /\ teardown_result = "none"
    /\ snap_called_at = 0
    /\ wait_started_at = 0
    /\ snap_returned_at = 0

\* no motion signal has reached handle_motion
PipeIdle ==
    /\ hm_pc = "idle"
    /\ snapshot_calls = 0
    /\ effects = {}
    /\ config = [folder |-> FALSE, notifier |-> FALSE, api_key |-> FALSE]
    /\ sinks = NoSinks
    /\ SnapIdle

\* self._start_time = None
NoStartTime == -1

NoFrame == [index |-> -1, at |-> 0, from |-> 0, pts |-> 0,
            chunk |-> [data |-> 0, zeros |-> 0]]

\* no audio track has been made
AudioIdle ==
    /\ samples_len = 0
    /\ position = 0
    /\ start_time = NoStartTime
    /\ loop_time = 0
    /\ recv_pc = "idle"
    /\ wake_at = 0
    /\ frames_returned = 0
    /\ last_frame = NoFrame

\* the monitoring loop has not been started
PollIdle ==
    /\ scan_pc = "not started"
    /\ scan_dev = 1
    /\ scan_history = << >>

\* the push listener has not been started
\* the handle_motion tasks of one device that are followed at a time
TaskSlots == {1, 2}

NoTask == [dev |-> "none", slot |-> 0]

PushIdle ==
    /\ push_pending = [d \in Devices |-> "none"]
    /\ push_task = [d \in Devices |-> [i \in TaskSlots |-> "none"]]
    /\ loop_busy = NoTask
    /\ push_accepts = [d \in Devices |-> << >>]
    /\ push_last = [dev |-> "none", at |-> 0]

\* no play_alert_through_doorbell call has been made
AlertIdle ==
    /\ alert_pc = "idle"
    /\ alert_ice = "new"
    /\ alert_sdp = << >>
    /\ alert_session = NoSession
    /\ alert_outcome = "none"
    /\ alert_result = "pending"
    /\ alert_failed_at = "none"
    /\ alert_teardown_calls = 0
    /\ alert_close_calls = 0
    /\ alert_teardown_result = "none"
    /\ alert_clock = 0
    /\ alert_hold_from = 0
    /\ alert_returned_at = 0

NoNotice == [kind |-> "none", description |-> "none", transport |-> "none",
             result |-> "none", error |-> "none"]

\* a detector without notification settings that has notified nobody
NotifyIdle ==
    /\ notify_env = [password |-> "None", recipients |-> 0, python |-> "3.12"]
    /\ notifier = "None"
    /\ notify_calls = 0
    /\ notify_last = NoNotice

ExtIdle == AudioIdle /\ PollIdle /\ PushIdle /\ AlertIdle /\ NotifyIdle

Init == GateInit /\ TrimIdle /\ LlmIdle /\ PipeIdle /\ ExtIdle

Next == ScanEvent \/ Tick

Spec == Init /\ [][Next]_vars

-----------------------------------------------------------------------------
(* The seen-set under a long run of events.  The doorbell issues event ids    *)
(* in a monotone sequence, rising or falling; every scan fetches the newest  *)
(* events of the doorbell, newest first, and runs the loop body on each of   *)
(* them.  The doorbells are busy one after the other: one records events     *)
(* only while no other is in the middle of its run.                          *)

IdOrders == {"rising", "falling"}

\* the id of the next event of a doorbell whose newest event has id n
next_event_id(order, n) ==
    IF order = "rising" THEN n + 1
    ELSE IF n = 0 THEN MaxEventId ELSE n - 1

\* the event source of a doorbell whose newest event has id n has more to issue
has_next_event(order, n) ==
    next_event_id(order, n) \in 1..MaxEventId

\* doorbell.async_history(limit=15), in the bridge limit=5
history_limit(prog) == IF prog = "bridge" THEN 5 ELSE 15

\* the ids of the events a doorbell has issued so far, newest first
issued_ids(order, n) ==
    IF order = "rising"
    THEN [i \in 1..n |-> n + 1 - i]
    ELSE [i \in 1..(MaxEventId + 1 - n) |-> n - 1 + i]

\* lst[:n]
list_head(lst, n) ==
    IF Len(lst) <= n THEN lst ELSE SubSeq(lst, 1, n)

\* what async_history returns for a doorbell whose newest event has id n
history_of(prog, order, n) ==
    list_head(issued_ids(order, n), history_limit(prog))

\* the doorbell records a new motion event, once the scan loop has gone
\* through a history that held the one before
Motion ==
    \E d \in Devices :
        /\ scanned[d]
        /\ pending = NoPending
        /\ has_next_event(id_order, newest[d])
        /\ \A o \in Devices \ {d} :
              newest[o] = 0 \/ ~has_next_event(id_order, newest[o])
        /\ newest' = [newest EXCEPT ![d] = next_event_id(id_order, newest[d])]
        /\ scanned' = [scanned EXCEPT ![d] = FALSE]
        /\ UNCHANGED <<id_order, insert_order, trim_cause, pending>>
        /\ UNCHANGED <<gate_vars, llm_vars, pipe_vars, ext_vars>>

\* history = await doorbell.async_history(limit=...): a scan of a doorbell
\* starts, whether or not an earlier scan has seen its newest event
AsyncHistory ==
    \E d \in Devices :
        /\ pending = NoPending
        /\ newest[d] # 0
        /\ pending' = [dev |-> d, ids |-> history_of(program, id_order, newest[d])]
        /\ UNCHANGED <<id_order, newest, scanned, insert_order, trim_cause>>
        /\ UNCHANGED <<gate_vars, llm_vars, pipe_vars, ext_vars>>

\* `for event in history`: the loop body runs on the next event of the
\* history that was fetched; after the last one the scan of the doorbell is over
ScanHistoryEvent ==
    /\ pending # NoPending
    /\ LET d == pending.dev
           e == Head(pending.ids)
           fresh == e \notin last_ding_ids[d]
           appended == IF fresh THEN Append(insert_order[d], e)
                       ELSE insert_order[d]
       IN /\ ProcessEvent(d, [id |-> e, kind |-> "motion"])
          /\ insert_order' = [insert_order EXCEPT ![d] =
                 SelectSeq(appended, LAMBDA x : x \in last_ding_ids'[d])]
          /\ trim_cause' =
                 IF fresh /\ Cardinality(last_ding_ids[d] \cup {e}) > SeenLimit
                 THEN [trim_cause EXCEPT ![d] = e]
                 ELSE trim_cause
          /\ IF Len(pending.ids) = 1
             THEN /\ pending' = NoPending
                  /\ scanned' = [scanned EXCEPT ![d] = TRUE]
             ELSE /\ pending' = [pending EXCEPT !.ids = Tail(pending.ids)]
                  /\ UNCHANGED scanned
    /\ UNCHANGED <<program, now, id_order, newest>>
    /\ UNCHANGED <<llm_vars, pipe_vars, ext_vars>>

TrimInit ==
    /\ GateInit
    /\ LlmIdle
    /\ PipeIdle
    /\ ExtIdle
    /\ id_order \in IdOrders
    /\ newest = [d \in Devices |-> 0]
    /\ scanned = [d \in Devices |-> TRUE]
    /\ insert_order = [d \in Devices |-> << >>]
    /\ trim_cause = [d \in Devices |-> 0]
    /\ pending = NoPending

TrimNext == Motion \/ AsyncHistory \/ ScanHistoryEvent

SpecTrim == TrimInit /\ [][TrimNext]_vars

-----------------------------------------------------------------------------
(* The classifier response.  A response text is a sequence of tokens:        *)
(*   "F"  three backquotes            "J"  the word json                     *)
(*   "W"  a line break                "X"  prose without quotes, not JSON    *)
(*   "S" "D" "B" "N"  the text of a whole JSON object (no backquote in it)   *)
(*   "T"  the JSON literal true                                              *)
(*   "O"  the start of a JSON object up to the inside of its last string:    *)
(*        {"is_suspicious": false, "is_delivery": false,                     *)
(*         "confidence": "high", "description": "see                         *)
(*   "C"  the end of that string and object:   here"}                        *)
(* so that "F","J" side by side is the json-tagged fence and "O",...,"C" is  *)
(* an object whose description holds the tokens in between.                  *)

TextTokens == {"F", "J", "W", "X", "S", "T", "O", "C"}

\* sequences over S of length at most n
SeqsUpTo(S, n) == UNION {[1..k -> S] : k \in 0..n}

FenceJson == <<"F", "J">>

Fence == <<"F">>

\* JSON objects a classifier can answer with: one with plain text, one with
\* prose and one with a fenced word in its description
Payloads == {<<"S">>, <<"O", "X", "C">>, <<"O", "F", "T", "F", "C">>}

\* the answers that hold a payload in a fence: a plain fence, a json-tagged
\* fence with line breaks, and a plain fence with prose around it
FencedPayloads ==
    UNION {{Fence \o p \o Fence,
            FenceJson \o <<"W">> \o p \o <<"W">> \o Fence,
            <<"X">> \o Fence \o p \o Fence \o <<"X">>} : p \in Payloads}

\* response.choices[0].message.content: every text of up to MaxRespLen
\* tokens, and the fenced payloads
ResponseTexts == SeqsUpTo(TextTokens, MaxRespLen) \cup FencedPayloads

\* text.find(sep) + 1: the first position where sep occurs in text, 0 if none
RECURSIVE find_from(_, _, _)
find_from(text, sep, i) ==
    IF i + Len(sep) - 1 > Len(text) THEN 0
    ELSE IF SubSeq(text, i, i + Len(sep) - 1) = sep THEN i
    ELSE find_from(text, sep, i + 1)

str_find(text, sep) == find_from(text, sep, 1)

\* sep in text
str_contains(text, sep) == str_find(text, sep) # 0

\* text.split(sep)[0]
split_first(text, sep) ==
    LET i == str_find(text, sep)
    IN IF i = 0 THEN text ELSE SubSeq(text, 1, i - 1)

\* text.split(sep)[1], for a text that contains sep
split_second(text, sep) ==
    LET i == str_find(text, sep)
        rest == SubSeq(text, i + Len(sep), Len(text))
    IN split_first(rest, sep)

\* text.strip()
RECURSIVE str_strip(_)
str_strip(text) ==
    IF text = << >> THEN text
    ELSE IF Head(text) = "W" THEN str_strip(Tail(text))
    ELSE IF text[Len(text)] = "W" THEN str_strip(SubSeq(text, 1, Len(text) - 1))
    ELSE text

\* the fence extraction of the analysis functions
extract_json(text) ==
    IF str_contains(text, FenceJson)
    THEN str_strip(split_first(split_second(text, FenceJson), Fence))
    ELSE IF str_contains(text, Fence)
    THEN str_strip(split_first(split_second(text, Fence), Fence))
    ELSE str_strip(text)

\* the JSON object texts: "S" says suspicious, "D" delivery, "B" both and
\* "N" neither
ObjectTokens == {"S", "D", "B", "N"}

\* json.loads(json_str) succeeds: the string is one JSON value, which is a
\* whole object, the literal true, or an object whose description string
\* is opened by "O" and closed by "C"; the tokens that can stand inside a
\* JSON string have no quote and no line break
json_loads_ok(json_str) ==
    \/ Len(json_str) = 1 /\ json_str[1] \in ObjectTokens \cup {"T"}
    \/ /\ Len(json_str) >= 2
       /\ json_str[1] = "O"
       /\ json_str[Len(json_str)] = "C"
       /\ \A i \in 2..(Len(json_str) - 1) : json_str[i] \in {"F", "J", "X", "T"}

\* the Python value True, which is not a dict
JsonTrue == [literal |-> "True"]

\* isinstance(value, dict), for a value json.loads returned
is_dict(value) == "literal" \notin DOMAIN value

\* what json.loads returns for a string that is one JSON value; a string
\* value is the sequence of its parts
json_loads(json_str) ==
    IF json_str = <<"T">> THEN JsonTrue
    ELSE IF json_str[1] = "O"
    THEN [is_suspicious |-> FALSE,
          is_delivery |-> FALSE,
          confidence |-> "high",
          description |-> <<"see">> \o SubSeq(json_str, 2, Len(json_str) - 1)
                             \o <<"here">>]
    ELSE [is_suspicious |-> json_str[1] \in {"S", "B"},
          is_delivery |-> json_str[1] \in {"D", "B"},
          confidence |-> "high",
          description |-> <<"person at door">>]

\* analysis.get(key), for a dict
dict_get(analysis, key) ==
    IF key \in DOMAIN analysis THEN analysis[key] ELSE FALSE

\* the dict returned from the JSONDecodeError handler
SafeDefault == [is_suspicious |-> FALSE, confidence |-> "low",
                description |-> <<"Failed to analyze image">>,
                reason |-> "JSON parse error"]

Returns(v) == [kind |-> "return", value |-> v]

Raises(e) == [kind |-> "raise", exc |-> e]

\* the names bound at module level in llm_analysis.py (its only import is openai)
LlmAnalysisGlobals == {"openai", "ANALYSIS_PROMPT", "DeterminationEngine"}

\* the names bound at module level in the single-file detector
DetectorGlobals == {"openai", "ANALYSIS_PROMPT", "asyncio", "base64", "json",
                    "logging", "logger", "os", "sys"}

\* The body shared by analyze_image_for_theft and analyze_image_with_openai,
\* run in a module whose global names are `globals`; a name that is not
\* bound raises NameError where it is first evaluated.
analyze_image(globals, api, text) ==
    IF "openai" \notin globals THEN Raises("NameError")
    ELSE IF "base64" \notin globals THEN Raises("NameError")
    ELSE IF api # "ok"
         \* openai.APIError from create(): the except clauses are tried in order
         THEN IF "json" \notin globals THEN Raises("NameError")
              ELSE IF "logger" \notin globals THEN Raises("NameError")
              ELSE Raises("APIError")
    ELSE IF "json" \notin globals THEN Raises("NameError")
    ELSE IF json_loads_ok(extract_json(text))
         THEN IF "logger" \notin globals THEN Raises("NameError")
              ELSE Returns(json_loads(extract_json(text)))
         ELSE IF "logger" \notin globals THEN Raises("NameError")
              ELSE Returns(SafeDefault)

\* DeterminationEngine.analyze_image_for_theft (llm_analysis.py)
analyze_image_for_theft(api, text) ==
    analyze_image(LlmAnalysisGlobals, api, text)

\* analyze_image_with_openai (the single-file detector)
analyze_image_with_openai(api, text) ==
    analyze_image(DetectorGlobals, api, text)

ApiOutcomes == {"ok", "api_error"}

\* the detector's engine analyses a frame
CallAnalyzeForTheft ==
    /\ llm_fn = "none"
    /\ llm_fn' = "analyze_image_for_theft"
    /\ llm_result' = analyze_image_for_theft(api_outcome, response_text)
    /\ UNCHANGED <<response_text, api_outcome>>
    /\ UNCHANGED <<gate_vars, trim_vars, pipe_vars, ext_vars>>

\* the single-file detector analyses a frame
CallAnalyzeWithOpenai ==
    /\ llm_fn = "none"
    /\ llm_fn' = "analyze_image_with_openai"
    /\ llm_result' = analyze_image_with_openai(api_outcome, response_text)
    /\ UNCHANGED <<response_text, api_outcome>>
    /\ UNCHANGED <<gate_vars, trim_vars, pipe_vars, ext_vars>>

LlmInit ==
    /\ GateInit
    /\ TrimIdle
    /\ PipeIdle
    /\ ExtIdle
    /\ response_text \in ResponseTexts
    /\ api_outcome \in ApiOutcomes
    /\ llm_fn = "none"
    /\ llm_result = [kind |-> "none"]

LlmNext == CallAnalyzeForTheft \/ CallAnalyzeWithOpenai

SpecLlm == LlmInit /\ [][LlmNext]_vars

-----------------------------------------------------------------------------
(* The capture pipeline: handle_motion and get_snapshot of the detector.     *)
(* One step runs a coroutine from one await to the next.  Time passes only   *)
(* while get_snapshot waits for something outside the process.               *)

SessionIds == {"3901"}

\* the offer aiortc produces, as white-space separated words with the "o="
\* prefix of the origin line as a word of its own
OfferSdp(sid) == <<"v=0", "o=", "-", sid, "2", "IN", "IP4", "0.0.0.0", "s=-">>

\* local_sdp.split("o=")[1].split()[1] if "o=" in local_sdp else None
session_id_of(sdp) ==
    IF str_contains(sdp, <<"o=">>)
    THEN split_second(sdp, <<"o=">>)[2]
    ELSE NoSession

\* `if session_id:` in the finally block
teardown_needed(sid) == sid # NoSession

\* how doorbell.close_webrtc_stream can end
TeardownOutcomes == {"ok", "raised"}

teardown_exit_propagates(r) == IF r = "raised" THEN "propagate" ELSE "continue"

\* try: await doorbell.close_webrtc_stream(session_id) / except Exception: pass
teardown_exit(r) == "continue"

ice_gathering_done_any(ice) == TRUE

\* the gathering loop is left: not (pc.iceGatheringState != "complete")
ice_gathering_done(ice) == ice = "complete"

future_settable_always(f) == TRUE

\* `if not frame_future.done():` in _capture_frame
future_settable(f) == f = "pending"

snapshot_usable_always(snap) == TRUE

\* `if not snapshot: return` in handle_motion
snapshot_usable(snap) == snap # "None"

\* the classifier answers the pipeline can meet
SampleTexts == {<<"S">>, <<"D">>, <<"B">>, <<"N">>,
                <<"F", "J", "W", "S", "W", "F">>, <<"X">>, <<"T">>}

\* the two detectors: the single file with its poll loop, and the package
\* that listens for pushes
PipePrograms == {"detector", "push"}

\* the analysis function handle_motion of a program calls
analysis_fn(prog) ==
    IF prog = "push" THEN "analyze_image_for_theft" ELSE "analyze_image_with_openai"

analyze(prog, api, text) ==
    IF prog = "push" THEN analyze_image_for_theft(api, text)
    ELSE analyze_image_with_openai(api, text)

\* the analysis function returned a value that has a get method: a value
\* that is not a dict raises AttributeError at the first analysis.get
analysis_usable(res) == res.kind = "return" /\ is_dict(res.value)

\* the branch handle_motion takes on an analysis: the package tests
\* is_suspicious, then is_delivery; the single file tests is_suspicious only
branch_of(prog, analysis) ==
    IF dict_get(analysis, "is_suspicious") THEN "suspicious"
    ELSE IF prog = "push" /\ dict_get(analysis, "is_delivery") THEN "delivery"
    ELSE "none"

\* upload_to_google_drive returns a file id, returns None (no service, or
\* the request failed), or raises (get_google_drive_service or the write of
\* the temporary file raised)
UploadOutcomes == {"id", "none", "raised"}

\* save_locally returns the path or raises (mkdir or a write failed)
SaveOutcomes == {"ok", "raised"}

\* how the suspicious branch of the single file ends: an exception of the
\* upload or of the local save leaves handle_motion
suspicious_end(folder, up, sv) ==
    IF (folder /\ up = "raised") \/ sv = "raised" THEN "raised" ELSE "done"

\* The suspicious branch of the single file's handle_motion: the upload if
\* a folder id is set, then the local save; an exception ends handle_motion.
SuspiciousSingleFile(up, sv) ==
    LET uploads == config.folder
        saves == ~uploads \/ up # "raised"
    IN /\ effects' = effects \cup {"classify"}
                       \cup (IF uploads THEN {"upload"} ELSE {})
                       \cup (IF saves THEN {"save_locally"} ELSE {})
       /\ sinks' = [upload |-> IF uploads THEN up ELSE "not called",
                    save |-> IF saves THEN sv ELSE "not called"]
       /\ hm_pc' = suspicious_end(config.folder, up, sv)

\* play_alert_through_doorbell from its call up to `await pc.createOffer()`,
\* or to its early return when the sound file is missing or cannot be decoded
AlertBegin(file_exists, audio_ok) ==
    /\ IF ~file_exists \/ ~audio_ok
       THEN /\ alert_pc' = "returned"
            /\ alert_result' = "False"
            /\ alert_outcome' = "error"
            /\ alert_failed_at' = IF ~file_exists THEN "sound_file" ELSE "audio_load"
       ELSE /\ alert_pc' = "create_offer"
            /\ alert_result' = "pending"
            /\ alert_outcome' = "none"
            /\ alert_failed_at' = "none"
    /\ alert_ice' = "new"
    /\ alert_sdp' = << >>
    /\ alert_session' = NoSession
    /\ alert_teardown_calls' = 0
    /\ alert_close_calls' = 0
    /\ alert_teardown_result' = "none"
    /\ UNCHANGED <<alert_clock, alert_hold_from, alert_returned_at>>

\* handle_motion of the package from the return of play_alert_through_doorbell
\* (`result`) on, having caused the effects `eff` so far: an exception of the
\* alert goes on through handle_motion; else upload_to_google_drive is called
\* if a folder id is set and raises NameError (get_google_drive_service uses
\* `os`, which google_drive_class does not import); else save_locally is
\* called and raises TypeError (it is defined without `self`).  The
\* notification after it is never reached.
AfterAlertPackage(result, eff) ==
    /\ hm_pc' = "raised"
    /\ IF result = "raised"
       THEN /\ effects' = eff
            /\ sinks' = sinks
       ELSE IF config.folder
       THEN /\ effects' = eff \cup {"upload"}
            /\ sinks' = [sinks EXCEPT !.upload = "raised"]
       ELSE /\ effects' = eff \cup {"save_locally"}
            /\ sinks' = [sinks EXCEPT !.save = "raised"]

\* handle_motion of the package after an analysis was returned, up to its
\* next await or its end: the alert playback and what follows it, the
\* delivery notification, or nothing
AfterAnalysisPackage(branch) ==
    IF branch = "suspicious"
    THEN \E file_exists \in BOOLEAN, audio_ok \in BOOLEAN :
            /\ AlertBegin(file_exists, audio_ok)
            /\ IF alert_pc' = "returned"
               THEN AfterAlertPackage(alert_result',
                                      effects \cup {"classify", "play_alert"})
               ELSE /\ effects' = effects \cup {"classify", "play_alert"}
                    /\ sinks' = sinks
                    /\ hm_pc' = "alerting"
    ELSE /\ sinks' = sinks
         /\ effects' = effects \cup {"classify"}
                         \cup (IF branch = "delivery" /\ config.notifier
                               THEN {"notify_package_delivered"} ELSE {})
         /\ hm_pc' = "done"
         /\ UNCHANGED alert_vars

\* handle_motion from the classifier call on, for a frame that was captured
Classify ==
    \E api \in ApiOutcomes, text \in SampleTexts :
        /\ api_outcome' = api
        /\ response_text' = text
        /\ llm_fn' = analysis_fn(program)
        /\ llm_result' = analyze(program, api, text)
        /\ IF ~analysis_usable(llm_result')
           THEN /\ effects' = effects \cup {"classify"}
                /\ sinks' = sinks
                /\ hm_pc' = "raised"
                /\ UNCHANGED alert_vars
           ELSE LET branch == branch_of(program, llm_result'.value)
                IN IF program = "push" THEN AfterAnalysisPackage(branch)
                   ELSE IF branch = "suspicious"
                   THEN /\ \E up \in UploadOutcomes, sv \in SaveOutcomes :
                             SuspiciousSingleFile(up, sv)
                        /\ UNCHANGED alert_vars
                   ELSE /\ effects' = effects \cup {"classify"}
                        /\ sinks' = sinks
                        /\ hm_pc' = "done"
                        /\ UNCHANGED alert_vars

\* The try block of get_snapshot ends with `outcome` (at step `failed`, if it
\* raised): the finally block starts and runs to its first await.
EnterFinally(outcome, failed, sid) ==
    /\ snap_outcome' = outcome
    /\ snap_failed_at' = failed
    /\ IF teardown_needed(sid)
       THEN /\ snap_pc' = "teardown"
            /\ teardown_calls' = teardown_calls + 1
       ELSE /\ snap_pc' = "close"
            /\ teardown_calls' = teardown_calls

proceeds_after_gate_always(ok) == TRUE

\* `if not self.should_process_motion(doorbell.id): return`
proceeds_after_gate(ok) == ok

\* handle_motion(doorbell): the gate, then get_snapshot up to `await pc.createOffer()`
HandleMotion ==
    \E d \in Devices :
        /\ hm_pc \notin {"capturing", "alerting"}
        /\ last_motion_time' = motion_time_after(program, last_motion_time, d, now)
        /\ IF proceeds_after_gate(should_process_motion(last_motion_time, d, now))
           THEN /\ hm_pc' = "capturing"
                /\ snapshot_calls' = 1
                /\ effects' = {}
                /\ sinks' = NoSinks
                /\ snap_pc' = "create_offer"
                /\ ice_state' = "new"
                /\ local_sdp' = << >>
                /\ session_id' = NoSession
                /\ frame_future' = "pending"
                /\ cap_task' = [k \in Tracks |-> "none"]
                /\ cap_reads' = [k \in Tracks |-> 0]
                /\ snap_outcome' = "none"
                /\ snapshot' = "pending"
                /\ teardown_calls' = 0
                /\ pc_close_calls' = 0
                /\ snap_failed_at' = "none"
                /\ teardown_result' = "none"
                /\ snap_called_at' = now
                /\ wait_started_at' = now
                /\ snap_returned_at' = now
                /\ response_text' = << >>
                /\ api_outcome' = "ok"
                /\ llm_fn' = "none"
                /\ llm_result' = [kind |-> "none"]
           ELSE /\ hm_pc' = "rejected"
                /\ UNCHANGED <<snapshot_calls, effects, sinks, snap_vars, llm_vars>>
        /\ UNCHANGED <<program, now, config, last_ding_ids, seen_table, accepted_at, gate_result,
                       last_reject, last_skip_at>>
        /\ UNCHANGED <<trim_vars, ext_vars>>

\* what a step of get_snapshot leaves alone
SnapFrame(changed_too) ==
    /\ UNCHANGED <<hm_pc, snapshot_calls, effects, snapshot, pc_close_calls,
                   teardown_result, snap_called_at, snap_returned_at, config, sinks>>
    /\ UNCHANGED changed_too
    /\ UNCHANGED <<gate_vars, trim_vars, llm_vars, ext_vars>>

\* pc.createOffer() returns or raises
SnapCreateOffer ==
    /\ snap_pc = "create_offer"
    /\ \/ /\ snap_pc' = "set_local"
          /\ UNCHANGED <<snap_outcome, snap_failed_at, teardown_calls>>
       \/ EnterFinally("error", "create_offer", session_id)
    /\ SnapFrame(<<ice_state, local_sdp, session_id, frame_future, cap_task,
                   cap_reads, wait_started_at>>)

\* pc.setLocalDescription(offer) returns or raises; on return the gathering
\* loop is entered, and left at once when gathering is already complete
SnapSetLocal ==
    /\ snap_pc = "set_local"
    /\ \/ \E sid \in SessionIds, ice \in {"gathering", "complete"} :
            /\ local_sdp' = OfferSdp(sid)
            /\ ice_state' = ice
            /\ snap_pc' = IF ice_gathering_done(ice) THEN "exchange" ELSE "ice_wait"
            /\ UNCHANGED <<snap_outcome, snap_failed_at, teardown_calls>>
       \/ /\ EnterFinally("error", "set_local", session_id)
          /\ UNCHANGED <<local_sdp, ice_state>>
    /\ SnapFrame(<<session_id, frame_future, cap_task, cap_reads, wait_started_at>>)

\* the ICE agent finishes gathering candidates
IceGatheringComplete ==
    /\ snap_pc = "ice_wait"
    /\ ice_state = "gathering"
    /\ ice_state' = "complete"
    /\ SnapFrame(<<snap_pc, local_sdp, session_id, frame_future, cap_task, cap_reads,
                   snap_outcome, snap_failed_at, teardown_calls, wait_started_at>>)

\* asyncio.sleep(0.1) returns with gathering complete: the offer is sent
SnapIcePoll ==
    /\ snap_pc = "ice_wait"
    /\ ice_gathering_done(ice_state)
    /\ snap_pc' = "exchange"
    /\ SnapFrame(<<ice_state, local_sdp, session_id, frame_future, cap_task, cap_reads,
                   snap_outcome, snap_failed_at, teardown_calls, wait_started_at>>)

\* doorbell.generate_webrtc_stream(local_sdp) returns the answer or raises
SnapExchange ==
    /\ snap_pc = "exchange"
    /\ \/ /\ session_id' = session_id_of(local_sdp)
          /\ snap_pc' = "set_remote"
          /\ UNCHANGED <<snap_outcome, snap_failed_at, teardown_calls>>
       \/ /\ EnterFinally("error", "exchange", session_id)
          /\ UNCHANGED session_id
    /\ SnapFrame(<<ice_state, local_sdp, frame_future, cap_task, cap_reads,
                   wait_started_at>>)

\* pc.setRemoteDescription(answer) returns, having announced video tracks
\* (on_track starts a _capture_frame task for each) or none, or raises; on
\* return asyncio.wait_for is entered
SnapSetRemote ==
    /\ snap_pc = "set_remote"
    /\ \/ \E video \in SUBSET Tracks :
            /\ cap_task' = [k \in Tracks |-> IF k \in video THEN "reading" ELSE "none"]
            /\ snap_pc' = "frame_wait"
            /\ wait_started_at' = now
            /\ UNCHANGED <<snap_outcome, snap_failed_at, teardown_calls>>
       \/ /\ EnterFinally("error", "set_remote", session_id)
          /\ UNCHANGED <<cap_task, wait_started_at>>
    /\ SnapFrame(<<ice_state, local_sdp, session_id, frame_future, cap_reads>>)

\* _capture_frame of track k: track.recv() returns a frame; after the fifth
\* one the task resolves the future unless it is done already
CapRecv ==
    \E k \in Tracks :
        /\ cap_task[k] = "reading"
        /\ cap_reads' = [cap_reads EXCEPT ![k] = @ + 1]
        /\ IF cap_reads[k] + 1 = SkipFrames
           THEN /\ cap_task' = [cap_task EXCEPT ![k] = "done"]
                /\ frame_future' = IF future_settable(frame_future) THEN "result"
                                   ELSE frame_future
           ELSE UNCHANGED <<cap_task, frame_future>>
        /\ SnapFrame(<<snap_pc, ice_state, local_sdp, session_id, snap_outcome,
                       snap_failed_at, teardown_calls, wait_started_at>>)

\* _capture_frame of track k: track.recv() raises
CapError ==
    \E k \in Tracks :
        /\ cap_task[k] = "reading"
        /\ cap_task' = [cap_task EXCEPT ![k] = "done"]
        /\ frame_future' = IF future_settable(frame_future) THEN "exception"
                           ELSE frame_future
        /\ SnapFrame(<<snap_pc, ice_state, local_sdp, session_id, cap_reads,
                       snap_outcome, snap_failed_at, teardown_calls, wait_started_at>>)

\* asyncio.wait_for returns the frame
SnapFrameReady ==
    /\ snap_pc = "frame_wait"
    /\ frame_future = "result"
    /\ EnterFinally("frame", "none", session_id)
    /\ SnapFrame(<<ice_state, local_sdp, session_id, frame_future, cap_task,
                   cap_reads, wait_started_at>>)

\* asyncio.wait_for re-raises the exception of the capture task
SnapFrameError ==
    /\ snap_pc = "frame_wait"
    /\ frame_future = "exception"
    /\ EnterFinally("error", "frame_wait", session_id)
    /\ SnapFrame(<<ice_state, local_sdp, session_id, frame_future, cap_task,
                   cap_reads, wait_started_at>>)

\* asyncio.wait_for: 15 s have passed and the future is cancelled, while
\* get_snapshot is still suspended at the wait
SnapTimeout ==
    /\ snap_pc = "frame_wait"
    /\ frame_future = "pending"
    /\ now - wait_started_at >= frame_timeout
    /\ frame_future' = "cancelled"
    /\ SnapFrame(<<snap_pc, ice_state, local_sdp, session_id, cap_task, cap_reads,
                   snap_outcome, snap_failed_at, teardown_calls, wait_started_at>>)

\* asyncio.wait_for raises TimeoutError into get_snapshot a few turns of the
\* event loop later: `except asyncio.TimeoutError`, then the finally block
SnapTimeoutCaught ==
    /\ snap_pc = "frame_wait"
    /\ frame_future = "cancelled"
    /\ EnterFinally("timeout", "frame_wait", session_id)
    /\ SnapFrame(<<ice_state, local_sdp, session_id, frame_future, cap_task,
                   cap_reads, wait_started_at>>)

\* doorbell.close_webrtc_stream(session_id) returns or raises; an exception
\* that left the finally block would end get_snapshot and handle_motion
SnapTeardown ==
    /\ snap_pc = "teardown"
    /\ \E r \in TeardownOutcomes :
         /\ teardown_result' = r
         /\ IF teardown_exit(r) = "continue"
            THEN /\ snap_pc' = "close"
                 /\ UNCHANGED <<hm_pc, snapshot, snap_returned_at>>
            ELSE /\ snap_pc' = "returned"
                 /\ snapshot' = "raised"
                 /\ hm_pc' = "raised"
                 /\ snap_returned_at' = now
    /\ UNCHANGED <<snapshot_calls, effects, pc_close_calls, snap_called_at, config,
                   sinks>>
    /\ UNCHANGED <<ice_state, local_sdp, session_id, frame_future, cap_task, cap_reads,
                   snap_outcome, snap_failed_at, teardown_calls, wait_started_at>>
    /\ UNCHANGED <<gate_vars, trim_vars, llm_vars, ext_vars>>

\* pc.close() returns: get_snapshot returns, and handle_motion runs on to its
\* next await or its end (the analysis functions and the sinks of the single
\* file have no await of their own)
SnapClose ==
    /\ snap_pc = "close"
    /\ snap_pc' = "returned"
    /\ pc_close_calls' = pc_close_calls + 1
    /\ cap_task' = [k \in Tracks |-> IF cap_task[k] = "reading" THEN "done"
                                      ELSE cap_task[k]]
    /\ snap_returned_at' = now
    /\ snapshot' = IF snap_outcome = "frame" THEN "frame" ELSE "None"
    /\ IF ~snapshot_usable(snapshot')
       THEN /\ hm_pc' = "no_snapshot"
            /\ UNCHANGED <<effects, sinks, llm_vars, alert_vars>>
       ELSE IF ~config.api_key
       THEN /\ hm_pc' = "no_api_key"
            /\ UNCHANGED <<effects, sinks, llm_vars, alert_vars>>
       ELSE Classify
    /\ UNCHANGED <<config, snapshot_calls, ice_state, local_sdp, session_id, frame_future,
                   cap_reads, snap_outcome, snap_failed_at, teardown_calls,
                   teardown_result, snap_called_at, wait_started_at>>
    /\ UNCHANGED <<gate_vars, trim_vars, audio_vars, poll_vars, push_vars, notify_vars>>

\* get_snapshot is waiting for something outside the process
SnapWaiting ==
    \/ snap_pc = "ice_wait" /\ ice_state # "complete"
    \/ snap_pc = "exchange"
    \/ snap_pc = "frame_wait" /\ now - wait_started_at < frame_timeout
    \/ snap_pc = "teardown"

\* time passes
PipeTick ==
    /\ SnapWaiting
    /\ now + PipeTickStep <= MaxPipeTime
    /\ now' = now + PipeTickStep
    /\ UNCHANGED <<program, last_motion_time, last_ding_ids, seen_table, accepted_at,
                   gate_result, last_reject, last_skip_at>>
    /\ UNCHANGED <<trim_vars, llm_vars, pipe_vars, ext_vars>>

PipeInit ==
    /\ program \in PipePrograms
    /\ now = 0
    /\ last_motion_time = << >>
    /\ last_ding_ids = [d \in Devices |-> {}]
    /\ seen_table = [d \in Devices |-> EmptyTable]
    /\ accepted_at = [d \in Devices |-> {}]
    /\ gate_result = NoResult
    /\ last_reject = NoReject
    /\ last_skip_at = Never
    /\ TrimIdle
    /\ LlmIdle
    /\ ExtIdle
    /\ hm_pc = "idle"
    /\ snapshot_calls = 0
    /\ effects = {}
    /\ sinks = NoSinks
    /\ config \in Configs
    /\ program = "detector" => ~config.notifier
    /\ SnapIdle

PipeNext ==
    \/ HandleMotion
    \/ SnapCreateOffer
    \/ SnapSetLocal
    \/ IceGatheringComplete
    \/ SnapIcePoll
    \/ SnapExchange
    \/ SnapSetRemote
    \/ CapRecv
    \/ CapError
    \/ SnapFrameReady
    \/ SnapFrameError
    \/ SnapTimeout
    \/ SnapTimeoutCaught
    \/ SnapTeardown
    \/ SnapClose
    \/ PipeTick

SpecPipe == PipeInit /\ [][PipeNext]_vars

-----------------------------------------------------------------------------
(* The audio source of the alert: AudioFileTrack.recv.  The loop clock is    *)
(* counted in ticks of half a sample period, so that int(elapsed * rate)     *)
(* truncates.  The code computes the product on floats: where the exact      *)
(* product is a whole number the float can lie just below it, and int()      *)
(* then gives one less.  A chunk is described by how many of its samples     *)
(* come from the buffer and how many are zeros written by np.zeros or np.pad.*)

\* resolution of asyncio.get_event_loop().time()
TicksPerSecond == 2 * sample_rate

\* buffer lengths: empty, shorter than a frame, whole frames, a partial last frame
BufferLens == {0, 500, 960, 1500, 2400, 3840}

\* what the caller of recv does between two calls: 10 ms or 25 ms of other work
CallerPauses == {TicksPerSecond \div 100, TicksPerSecond \div 40}

\* asyncio.sleep returns on time or up to a millisecond late
SleepLateness == {0, TicksPerSecond \div 1000}

Min(a, b) == IF a <= b THEN a ELSE b

\* by how much int() of the float product can fall short of the exact
\* product: by one where the exact product is a whole number above zero
\* (the float difference of two clock readings times the rate can lie just
\* below it), else not at all
float_shortfalls(elapsed) ==
    IF elapsed > 0 /\ (elapsed * sample_rate) % TicksPerSecond = 0
    THEN {0, 1} ELSE {0}

\* int(elapsed * self.sample_rate), the float product falling short by `short`
target_samples_at(elapsed, short) ==
    ((elapsed * sample_rate) \div TicksPerSecond) - short

\* samples_ahead = self.position - target_samples
samples_ahead_at(pos, elapsed, short) == pos - target_samples_at(elapsed, short)

\* asyncio.sleep(samples_ahead / self.sample_rate), in ticks
sleep_ticks(ahead) == (ahead * TicksPerSecond + sample_rate - 1) \div sample_rate

\* end_pos = min(self.position + self.samples_per_frame, len(self.samples))
end_pos_of(pos, n) == Min(pos + samples_per_frame, n)

chunk_of_nopad(pos, n) ==
    IF pos >= n
    THEN [data |-> 0, zeros |-> samples_per_frame]
    ELSE [data |-> end_pos_of(pos, n) - pos, zeros |-> 0]

\* the chunk recv puts into the frame: np.zeros past the end of the buffer,
\* else the slice samples[position:end_pos], padded when it is short
chunk_of(pos, n) ==
    IF pos >= n
    THEN [data |-> 0, zeros |-> samples_per_frame]
    ELSE LET taken == end_pos_of(pos, n) - pos
         IN IF taken < samples_per_frame
            THEN [data |-> taken, zeros |-> samples_per_frame - taken]
            ELSE [data |-> taken, zeros |-> 0]

\* recv from `# Get audio chunk` to `return frame`, at loop time t
EmitFrame(t) ==
    /\ position' = end_pos_of(position, samples_len)
    /\ frames_returned' = frames_returned + 1
    /\ last_frame' = [index |-> frames_returned, at |-> t, from |-> position,
                      pts |-> position', chunk |-> chunk_of(position, samples_len)]
    /\ recv_pc' = "idle"

\* what a step of the track leaves alone
AudioUnchanged(changed_too) ==
    /\ UNCHANGED samples_len
    /\ UNCHANGED changed_too
    /\ UNCHANGED <<gate_vars, trim_vars, llm_vars, pipe_vars, poll_vars, push_vars,
                   alert_vars, notify_vars>>

\* recv is called: it returns a frame at once, or suspends in asyncio.sleep
RecvCall ==
    /\ recv_pc = "idle"
    /\ frames_returned < MaxFrames
    /\ start_time' = IF start_time = NoStartTime THEN loop_time ELSE start_time
    /\ \E short \in float_shortfalls(loop_time - start_time') :
          LET ahead == samples_ahead_at(position, loop_time - start_time', short)
          IN IF ahead > samples_per_frame
             THEN /\ recv_pc' = "sleeping"
                  /\ wake_at' = loop_time + sleep_ticks(ahead)
                  /\ UNCHANGED <<position, frames_returned, last_frame>>
             ELSE /\ EmitFrame(loop_time)
                  /\ UNCHANGED wake_at
    /\ AudioUnchanged(<<loop_time>>)

\* asyncio.sleep returns and recv returns its frame
RecvWake ==
    /\ recv_pc = "sleeping"
    /\ \E late \in SleepLateness :
          /\ loop_time' = wake_at + late
          /\ EmitFrame(loop_time')
    /\ AudioUnchanged(<<start_time, wake_at>>)

\* the caller does something else before it calls recv again
CallerPause ==
    /\ recv_pc = "idle"
    /\ frames_returned > 0
    /\ \E d \in CallerPauses :
          /\ loop_time + d <= MaxAudioTicks
          /\ loop_time' = loop_time + d
    /\ AudioUnchanged(<<position, start_time, recv_pc, wake_at, frames_returned,
                    last_frame>>)

\* AudioFileTrack(samples)
AudioInit ==
    /\ GateInit
    /\ program = "detector"
    /\ TrimIdle
    /\ LlmIdle
    /\ PipeIdle
    /\ PollIdle
    /\ PushIdle
    /\ AlertIdle
    /\ NotifyIdle
    /\ samples_len \in BufferLens
    /\ position = 0
    /\ start_time = NoStartTime
    /\ loop_time = 0
    /\ recv_pc = "idle"
    /\ wake_at = 0
    /\ frames_returned = 0
    /\ last_frame = NoFrame

AudioNext == RecvCall \/ RecvWake \/ CallerPause

SpecAudio == AudioInit /\ [][AudioNext]_vars

-----------------------------------------------------------------------------
(* Properties of the gate *)

\* the step is a pass of the loop body over a motion event (the clock and the
\* event source stand still): the event it handled is gate_result'
MotionStep ==
    /\ now' = now
    /\ newest' = newest
    /\ gate_result'.dev \in Devices
    /\ (gate_result'.handled \/ gate_result'.was_seen)

\* the cooldown has passed for doorbell d at time t
CooldownOver(d, t) ==
    accepted_at[d] = {} \/ t - Max(accepted_at[d]) >= motion_cooldown

\* C1: any two accepted triggers of one device are at least motion_cooldown
\* seconds apart.
C1_TriggersSpaced ==
    \A d \in Devices : \A t1, t2 \in accepted_at[d] :
        t1 < t2 => t2 - t1 >= motion_cooldown

\* a device with two accepted triggers
C1_Witness ==
    \E d \in Devices : Cardinality(accepted_at[d]) >= 2

\* C2: a motion signal whose id is already in the device's seen-set is not
\* handed to handle_motion and starts no capture.
C2_SeenNeverHandled ==
    gate_result.was_seen => ~gate_result.handled /\ ~gate_result.accepted

\* a seen id re-emitted after the cooldown of its device has passed, and skipped
C2_Witness ==
    /\ gate_result.was_seen
    /\ gate_result.dev \in DOMAIN last_motion_time
    /\ last_skip_at - last_motion_time[gate_result.dev] >= motion_cooldown

\* C3: the gate accepts a motion signal exactly when its id is not in the
\* seen-set and the device has no earlier accepted trigger or at least
\* motion_cooldown seconds have passed since its last one.
C3_AcceptIff ==
    [][MotionStep =>
          LET d == gate_result'.dev
              e == gate_result'.id
          IN gate_result'.accepted <=>
                (e \notin last_ding_ids[d] /\ CooldownOver(d, now))]_vars

\* the scenario: id 1 at t=0 triggers, id 1 again at t=5 does not, id 2 at
\* t=31 triggers (no other doorbell has seen anything, so the skip at t=5 is
\* that of id 1 on D1)
C3_Witness ==
    /\ now = 31
    /\ accepted_at["D1"] = {0, 31}
    /\ last_skip_at = 5
    /\ last_ding_ids["D1"] = {1, 2}
    /\ last_ding_ids["D2"] = {}
    /\ last_reject = NoReject
    /\ gate_result = [dev |-> "D1", id |-> 2, was_seen |-> FALSE,
                      handled |-> TRUE, accepted |-> TRUE]

\* the step is a pass of the loop body in which the cooldown rejects the event
CooldownRejects ==
    MotionStep /\ gate_result'.handled /\ ~gate_result'.accepted

\* C4 as claimed: a signal rejected by the cooldown leaves the seen-set
\* unchanged, and the same id re-emitted once the cooldown has passed is
\* accepted.
C4_AsClaimed ==
    [][LET d == gate_result'.dev
           e == gate_result'.id
       IN /\ CooldownRejects => last_ding_ids'[d] = last_ding_ids[d]
          /\ (MotionStep /\ last_reject = [dev |-> d, id |-> e]
                 /\ CooldownOver(d, now))
              => gate_result'.accepted]_vars

-----------------------------------------------------------------------------
(* Properties of the seen-set *)

\* the step is a pass of the loop body that inserts an id into a seen-set
\* already holding SeenLimit ids
OverflowingInsert ==
    /\ MotionStep
    /\ gate_result'.handled
    /\ Cardinality(last_ding_ids[gate_result'.dev]) >= SeenLimit

\* C5: after every insertion step each seen-set holds at most SeenLimit ids,
\* and an insertion that brings the size above SeenLimit leaves at most
\* SeenKeep ids within the same step, before handle_motion starts.
C5_SeenBounded ==
    [][/\ \A d \in Devices : Cardinality(last_ding_ids'[d]) <= SeenLimit
       /\ OverflowingInsert =>
             Cardinality(last_ding_ids'[gate_result'.dev]) <= SeenKeep]_vars

\* a seen-set that has just been trimmed
C5_Witness ==
    \E d \in Devices :
        /\ trim_cause[d] # 0
        /\ gate_result.dev = d
        /\ gate_result.id = trim_cause[d]
        /\ gate_result.handled
        /\ Cardinality(last_ding_ids[d]) = SeenKeep

\* C6 as claimed: a trim leaves exactly the SeenKeep most recently inserted
\* ids, the id whose insertion caused the trim among them, and that id is not
\* handled again by a later scan.
C6_AsClaimed ==
    [][/\ OverflowingInsert =>
             LET d == gate_result'.dev
                 e == gate_result'.id
             IN /\ last_ding_ids'[d] =
                      set_keys(set_from_list(list_tail(Append(insert_order[d], e), SeenKeep)))
                /\ e \in last_ding_ids'[d]
       /\ (MotionStep /\ gate_result'.id = trim_cause[gate_result'.dev])
             => ~gate_result'.handled]_vars

-----------------------------------------------------------------------------
(* Properties of the capture pipeline *)

\* C7 as claimed: every call of get_snapshot has attempted the device
\* teardown exactly once when it returns, whatever the exit path.
C7_AsClaimed == snap_pc = "returned" => teardown_calls = 1

\* C8 as claimed: get_snapshot returns no later than frame_timeout seconds
\* after it is called; no call is still running after that time.
C8_AsClaimed ==
    snap_pc # "idle" =>
        (IF snap_pc = "returned" THEN snap_returned_at ELSE now) - snap_called_at
            <= frame_timeout

\* the capture of the last signal that passed the gate has failed
CaptureFailed ==
    snap_pc = "returned" /\ snapshot = "None" /\ hm_pc # "rejected"

\* C9 as claimed: after a failed capture the pipeline has invoked neither the
\* classifier nor a side effect, has called get_snapshot once, and the device
\* teardown was attempted.
C9_AsClaimed ==
    CaptureFailed =>
        /\ hm_pc = "no_snapshot"
        /\ effects = {}
        /\ snapshot_calls = 1
        /\ teardown_calls = 1

\* handle_motion has called the classifier and has ended, by returning or by
\* an exception
PipelineEnded == hm_pc \in {"done", "raised"}

\* the JSON object the classifier answered with, when it answered with one
Answered ==
    /\ api_outcome = "ok"
    /\ json_loads_ok(extract_json(response_text))
    /\ is_dict(json_loads(extract_json(response_text)))

AnswerFlag(key) == Answered /\ json_loads(extract_json(response_text))[key]

\* the calls that act on a frame
SuspiciousCalls == {"play_alert", "upload", "save_locally", "notify_thief_detected"}

DeliveryCalls == {"notify_package_delivered"}

\* C11 as claimed: whatever the classifier step produces, handle_motion ends
\* without an exception passing to its caller or its task.
C11_AsClaimed == hm_pc # "raised"

\* C12 as claimed: when the classification result has is_suspicious true,
\* the pipeline invokes the alert playback, the local save and the thief
\* notification, and the upload if and only if a folder id is configured.
C12_AsClaimed ==
    (PipelineEnded /\ AnswerFlag("is_suspicious")) =>
        /\ {"play_alert", "save_locally", "notify_thief_detected"} \subseteq effects
        /\ "upload" \in effects <=> config.folder

\* C13 as claimed: in the suspicious branch with a folder id configured the
\* local save is attempted whatever the upload does (an id, none, or an
\* exception).
C13_AsClaimed ==
    (PipelineEnded /\ AnswerFlag("is_suspicious") /\ config.folder) =>
        "save_locally" \in effects

\* C14 as claimed: when the classification result has is_suspicious false
\* and is_delivery true, the delivery notification is the one call the
\* pipeline makes: no alert playback, no upload, no local save.
C14_AsClaimed ==
    (/\ PipelineEnded
     /\ config.notifier
     /\ ~AnswerFlag("is_suspicious")
     /\ AnswerFlag("is_delivery")) =>
        effects \ {"classify"} = DeliveryCalls

\* C15 as claimed: when the classification result has is_suspicious and
\* is_delivery both true, the suspicious branch runs and the delivery branch
\* does not: no delivery notification is sent for the frame.
C15_AsClaimed ==
    (PipelineEnded /\ AnswerFlag("is_suspicious") /\ AnswerFlag("is_delivery")) =>
        /\ effects \cap SuspiciousCalls # {}
        /\ effects \cap DeliveryCalls = {}

-----------------------------------------------------------------------------
(* The monitoring loop of the poll mode: start_monitoring of the single-file *)
(* detector and run of the n8n bridge.  The loop is one coroutine; a step    *)
(* runs it from one await to the next, and handle_motion runs inside it.     *)
(* hm_pc tells where the handle_motion call that the loop awaits is.         *)

\* `for doorbell in doorbells`
DoorbellOrder == <<"D1", "D2">>

\* what async_history can return, newest event first
Histories ==
    { << >>,
      <<[id |-> 1, kind |-> "motion"]>>,
      <<[id |-> 2, kind |-> "motion"], [id |-> 1, kind |-> "motion"]>>,
      <<[id |-> 2, kind |-> "ding"], [id |-> 1, kind |-> "motion"]>> }

\* `await asyncio.sleep(10)`
poll_interval == 10

\* the stages of handle_motion at which the coroutine is suspended
PipelineStages == {"capturing", "posting"}

\* the body of `for doorbell in doorbells` is left: the next doorbell's
\* history is fetched, or the scan ends in the sleep
NextDoorbell ==
    /\ scan_history' = << >>
    /\ IF scan_dev < Len(DoorbellOrder)
       THEN scan_dev' = scan_dev + 1 /\ scan_pc' = "history"
       ELSE scan_dev' = scan_dev /\ scan_pc' = "sleep"

loop_body_catches_never(e) == FALSE

\* `except Exception as e:` around the body of `for doorbell in doorbells`
loop_body_catches(e) == e = "Exception"

\* an exception leaves the history fetch or handle_motion: the handler of the
\* loop body logs it and the next doorbell is checked; an exception it did not
\* catch would leave the loop
BodyRaises(e) ==
    IF loop_body_catches(e) THEN NextDoorbell
    ELSE /\ scan_pc' = "stopped"
         /\ UNCHANGED <<scan_dev, scan_history>>

\* what a step of the loop leaves alone
PollUnchanged(changed_too) ==
    /\ UNCHANGED <<snapshot_calls, snap_vars, config>>
    /\ UNCHANGED changed_too
    /\ UNCHANGED <<trim_vars, audio_vars, push_vars, alert_vars, notify_vars>>

\* ring.async_update_data() returns, or raises and ends the loop
PollRefresh ==
    /\ scan_pc = "refresh"
    /\ \/ scan_pc' = "history" /\ scan_dev' = 1
       \/ scan_pc' = "stopped" /\ scan_dev' = scan_dev
    /\ PollUnchanged(<<scan_history, hm_pc, effects, sinks>>)
    /\ UNCHANGED <<gate_vars, llm_vars>>

\* doorbell.async_history() returns, or raises into the handler of the loop body
PollHistory ==
    /\ scan_pc = "history"
    /\ \/ \E h \in Histories :
            /\ scan_history' = h
            /\ scan_pc' = "events"
            /\ scan_dev' = scan_dev
       \/ BodyRaises("Exception")
    /\ PollUnchanged(<<hm_pc, effects, sinks>>)
    /\ UNCHANGED <<gate_vars, llm_vars>>

\* one pass of `for event in history`: the seen-set test, the insertion, and
\* the call of handle_motion up to its first await
PollEvent ==
    /\ scan_pc = "events"
    /\ scan_history # << >>
    /\ ProcessEvent(DoorbellOrder[scan_dev], Head(scan_history))
    /\ scan_history' = Tail(scan_history)
    /\ scan_dev' = scan_dev
    /\ IF gate_result'.accepted
       THEN /\ scan_pc' = "handle_motion"
            /\ hm_pc' = "capturing"
            /\ effects' = {}
            /\ sinks' = NoSinks
            /\ response_text' = << >>
            /\ api_outcome' = "ok"
            /\ llm_fn' = "none"
            /\ llm_result' = [kind |-> "none"]
       ELSE /\ scan_pc' = "events"
            /\ hm_pc' = IF gate_result'.handled THEN "rejected" ELSE hm_pc
            /\ UNCHANGED <<effects, sinks, llm_vars>>
    /\ PollUnchanged(<<program, now>>)

\* the history of a doorbell has been gone through
PollEventsDone ==
    /\ scan_pc = "events"
    /\ scan_history = << >>
    /\ NextDoorbell
    /\ PollUnchanged(<<hm_pc, effects, sinks>>)
    /\ UNCHANGED <<gate_vars, llm_vars>>

\* handle_motion has ended: the loop goes on with the next event, or, when
\* handle_motion raised, with the handler of the loop body
PollResume(ended) ==
    IF ended = "raised"
    THEN BodyRaises("Exception")
    ELSE UNCHANGED scan_dev /\ UNCHANGED scan_history /\ scan_pc' = "events"

\* the single file: get_snapshot returns to handle_motion, which runs to its end
PollSnapshotReturns ==
    /\ program = "detector"
    /\ scan_pc = "handle_motion"
    /\ hm_pc = "capturing"
    /\ \E snap \in {"frame", "None"} :
          IF ~snapshot_usable(snap)
          THEN hm_pc' = "no_snapshot" /\ UNCHANGED <<effects, sinks, llm_vars>>
          ELSE IF ~config.api_key
          THEN hm_pc' = "no_api_key" /\ UNCHANGED <<effects, sinks, llm_vars>>
          ELSE Classify
    /\ PollResume(hm_pc')
    /\ PollUnchanged(<<gate_vars>>)

\* the bridge: doorbell.async_get_snapshot() returns, and in the same
\* resumption handle_motion calls send_to_n8n, which runs up to its post, or
\* returns at once when no webhook is configured; or the call raises into the
\* handler of handle_motion
PollBridgeSnapshot ==
    /\ program = "bridge"
    /\ scan_pc = "handle_motion"
    /\ hm_pc = "capturing"
    /\ \/ /\ hm_pc' = "posting"
          /\ effects' = effects \cup {"send_to_n8n"}
          /\ UNCHANGED <<scan_pc, scan_dev, scan_history>>
       \/ /\ hm_pc' = "done"
          /\ effects' = effects \cup {"send_to_n8n"}
          /\ PollResume(hm_pc')
       \/ /\ hm_pc' = "done"
          /\ UNCHANGED effects
          /\ PollResume(hm_pc')
    /\ PollUnchanged(<<gate_vars, llm_vars, sinks>>)

\* the bridge: the post is answered and send_to_n8n ends (it logs what the
\* post raises)
PollBridgePosted ==
    /\ program = "bridge"
    /\ scan_pc = "handle_motion"
    /\ hm_pc = "posting"
    /\ hm_pc' = "done"
    /\ PollResume(hm_pc')
    /\ PollUnchanged(<<gate_vars, llm_vars, effects, sinks>>)

\* asyncio.sleep(10) returns
PollSleep ==
    /\ scan_pc = "sleep"
    /\ now + poll_interval <= MaxPollTime
    /\ now' = now + poll_interval
    /\ scan_pc' = "refresh"
    /\ UNCHANGED <<scan_dev, scan_history>>
    /\ UNCHANGED <<program, last_motion_time, last_ding_ids, seen_table, accepted_at,
                   gate_result, last_reject, last_skip_at>>
    /\ PollUnchanged(<<hm_pc, effects, sinks, llm_vars>>)

\* time passes while the loop waits for the Ring service or for a pipeline
PollTick ==
    /\ scan_pc \in {"refresh", "history", "handle_motion"}
    /\ now + PipeTickStep <= MaxPollTime
    /\ now' = now + PipeTickStep
    /\ UNCHANGED <<program, last_motion_time, last_ding_ids, seen_table, accepted_at,
                   gate_result, last_reject, last_skip_at>>
    /\ PollUnchanged(<<hm_pc, effects, sinks, llm_vars, poll_vars>>)

\* start_monitoring / run up to the first await of the loop
PollInit ==
    /\ GateInit
    /\ TrimIdle
    /\ LlmIdle
    /\ AudioIdle
    /\ PushIdle
    /\ AlertIdle
    /\ NotifyIdle
    /\ hm_pc = "idle"
    /\ snapshot_calls = 0
    /\ effects = {}
    /\ sinks = NoSinks
    /\ config \in {c \in Configs : c.api_key /\ ~c.notifier}
    /\ program = "bridge" => ~config.folder
    /\ SnapIdle
    /\ scan_pc = "refresh"
    /\ scan_dev = 1
    /\ scan_history = << >>

PollNext ==
    \/ PollRefresh
    \/ PollHistory
    \/ PollEvent
    \/ PollEventsDone
    \/ PollSnapshotReturns
    \/ PollBridgeSnapshot
    \/ PollBridgePosted
    \/ PollSleep
    \/ PollTick

SpecPoll == PollInit /\ [][PollNext]_vars

-----------------------------------------------------------------------------
(* The push listener: on_event creates one handle_motion task per motion    *)
(* event.  All tasks and callbacks run on one event loop: a step runs one   *)
(* of them from one await to the next, and while a task is inside a call    *)
(* that does not await, nothing else runs.  Up to two tasks per device are  *)
(* followed at a time.                                                      *)

\* wall-clock seconds up to which the push listener is followed
MaxPushTime == 30

\* seconds by which the wall clock of the push listener advances in one step
PushTickStep == 15

\* the module globals the analysis function of a program runs with
globals_of(prog) == IF prog = "push" THEN LlmAnalysisGlobals ELSE DetectorGlobals

\* whether the analysis function gets as far as client.chat.completions.create
request_reached(globals) == {"openai", "base64"} \subseteq globals

\* the stages of a task that is alive
LiveStages == {"created", "capturing", "classifying"}

\* the slots of a device that hold no live task
FreeSlots(d) == {i \in TaskSlots : push_task[d][i] \notin LiveStages}

\* the slot a new task of a device is followed in
FirstFree(d) == CHOOSE i \in FreeSlots(d) : \A j \in FreeSlots(d) : i <= j

\* handle_motion of the single file from the return of the request to its end
detector_end(api, text, up, sv) ==
    LET res == analyze("detector", api, text)
    IN IF ~analysis_usable(res) THEN "raised"
       ELSE IF branch_of("detector", res.value) = "suspicious"
       THEN suspicious_end(config.folder, up, sv)
       ELSE "done"

\* the task in slot i of device d moves to `stage`; a task that ends frees
\* its slot
TaskMoves(d, i, stage) ==
    IF stage \in LiveStages
    THEN /\ push_task' = [push_task EXCEPT ![d][i] = stage]
         /\ push_last' = push_last
    ELSE /\ push_task' = [push_task EXCEPT ![d][i] = "none"]
         /\ push_last' = IF stage = "rejected" THEN [dev |-> d, at |-> now]
                                               ELSE push_last

\* what a step of the push listener leaves alone
PushUnchanged(changed_too) ==
    /\ UNCHANGED <<program, last_ding_ids, seen_table, accepted_at, gate_result, last_reject,
                   last_skip_at>>
    /\ UNCHANGED changed_too
    /\ UNCHANGED <<trim_vars, llm_vars, pipe_vars, audio_vars, poll_vars, alert_vars,
                   notify_vars>>

\* the listener receives a push message for a doorbell
PushSignal ==
    \E d \in Devices, k \in EventKinds :
        /\ push_pending[d] = "none"
        /\ FreeSlots(d) # {}
        /\ push_pending' = [push_pending EXCEPT ![d] = k]
        /\ PushUnchanged(<<now, last_motion_time, push_task, loop_busy,
                           push_accepts, push_last>>)

\* on_event(event): a motion event gets a task, any other event is dropped
OnEvent(d) ==
    /\ loop_busy = NoTask
    /\ push_pending[d] # "none"
    /\ push_pending' = [push_pending EXCEPT ![d] = "none"]
    /\ push_task' =
         IF push_pending[d] = "motion"
         THEN [push_task EXCEPT ![d][FirstFree(d)] = "created"]
         ELSE push_task
    /\ PushUnchanged(<<now, last_motion_time, loop_busy, push_accepts, push_last>>)

PushOnEvent == \E d \in Devices : OnEvent(d)

\* the task runs handle_motion up to its first await: the gate, then
\* get_snapshot up to `await pc.createOffer()`
PushTaskStart ==
    \E d \in Devices, i \in TaskSlots :
        /\ loop_busy = NoTask
        /\ push_task[d][i] = "created"
        /\ last_motion_time' = motion_time_after(program, last_motion_time, d, now)
        /\ IF should_process_motion(last_motion_time, d, now)
           THEN /\ TaskMoves(d, i, "capturing")
                /\ push_accepts' = [push_accepts EXCEPT ![d] = Append(@, now)]
           ELSE /\ TaskMoves(d, i, "rejected")
                /\ push_accepts' = push_accepts
        /\ PushUnchanged(<<now, push_pending, loop_busy>>)

\* get_snapshot returns to handle_motion, which runs on to the request of
\* the analysis function, or to its end
PushSnapshotReturns ==
    \E d \in Devices, i \in TaskSlots, snap \in {"frame", "None"} :
        /\ loop_busy = NoTask
        /\ push_task[d][i] = "capturing"
        /\ IF ~snapshot_usable(snap)
           THEN TaskMoves(d, i, "no_snapshot") /\ loop_busy' = loop_busy
           ELSE IF ~config.api_key
           THEN TaskMoves(d, i, "no_api_key") /\ loop_busy' = loop_busy
           ELSE IF ~request_reached(globals_of(program))
           THEN TaskMoves(d, i, "raised") /\ loop_busy' = loop_busy
           ELSE TaskMoves(d, i, "classifying") /\ loop_busy' = [dev |-> d, slot |-> i]
        /\ PushUnchanged(<<now, last_motion_time, push_pending, push_accepts>>)

\* client.chat.completions.create returns or raises, and handle_motion runs
\* to its end
PushRequestReturns ==
    \E d \in Devices, i \in TaskSlots, api \in ApiOutcomes, text \in SampleTexts,
       up \in UploadOutcomes, sv \in SaveOutcomes :
        /\ loop_busy = [dev |-> d, slot |-> i]
        /\ push_task[d][i] = "classifying"
        /\ TaskMoves(d, i, detector_end(api, text, up, sv))
        /\ loop_busy' = NoTask
        /\ PushUnchanged(<<now, last_motion_time, push_pending, push_accepts>>)

\* time passes
PushTick ==
    /\ now + PushTickStep <= MaxPushTime
    /\ now' = now + PushTickStep
    /\ PushUnchanged(<<last_motion_time, push_vars>>)

\* start_with_push_notifications up to `await asyncio.sleep(1)`
PushInit ==
    /\ program \in PipePrograms
    /\ now = 0
    /\ last_motion_time = << >>
    /\ last_ding_ids = [d \in Devices |-> {}]
    /\ seen_table = [d \in Devices |-> EmptyTable]
    /\ accepted_at = [d \in Devices |-> {}]
    /\ gate_result = NoResult
    /\ last_reject = NoReject
    /\ last_skip_at = Never
    /\ TrimIdle
    /\ LlmIdle
    /\ AudioIdle
    /\ PollIdle
    /\ AlertIdle
    /\ NotifyIdle
    /\ hm_pc = "idle"
    /\ snapshot_calls = 0
    /\ effects = {}
    /\ sinks = NoSinks
    /\ config \in {c \in Configs : ~c.notifier}
    /\ SnapIdle
    /\ PushIdle

PushNext ==
    \/ PushSignal
    \/ PushOnEvent
    \/ PushTaskStart
    \/ PushSnapshotReturns
    \/ PushRequestReturns
    \/ PushTick

SpecPush == PushInit /\ [][PushNext]_vars

-----------------------------------------------------------------------------
(* play_alert_through_doorbell(doorbell), followed from its call to its     *)
(* return: the sound file is loaded, an audio track is offered to the       *)
(* doorbell, the session is held open while the track is played, and the    *)
(* session is torn down.  Time is counted in half seconds.                  *)

\* CONFIG["alert_sound_duration"], in seconds
alert_sound_duration == 3

\* half seconds up to which a play_alert call is followed
MaxAlertTicks == 12

\* asyncio.sleep(duration + 0.5), in half seconds
HoldTicks == 2 * alert_sound_duration + 1

\* what the call gives its caller when the try block was left in this way
alert_return(outcome) ==
    CASE outcome = "held" -> "True"
      [] outcome = "cancelled" -> "raised"
      [] OTHER -> "False"

\* what a step of play_alert_through_doorbell leaves alone
AlertUnchanged(changed_too) ==
    /\ UNCHANGED changed_too
    /\ UNCHANGED <<gate_vars, trim_vars, llm_vars, pipe_vars, audio_vars, poll_vars,
                   push_vars, notify_vars>>

\* the try block is left: the finally block is entered
AlertFinally(outcome, failed, sid) ==
    /\ alert_outcome' = outcome
    /\ alert_failed_at' = failed
    /\ IF teardown_needed(sid)
       THEN /\ alert_pc' = "teardown"
            /\ alert_teardown_calls' = alert_teardown_calls + 1
       ELSE /\ alert_pc' = "close"
            /\ alert_teardown_calls' = alert_teardown_calls

\* the call up to `await pc.createOffer()`, or to its early return when the
\* sound file is missing or cannot be decoded
AlertStart ==
    /\ alert_pc = "idle"
    /\ \E file_exists \in BOOLEAN, audio_ok \in BOOLEAN :
         AlertBegin(file_exists, audio_ok)
    /\ AlertUnchanged(<< >>)

\* The call returns `result` to its caller, or raises into it.  When the
\* caller is handle_motion of the package, it runs on from line 377.
AlertReturns(result) ==
    /\ IF hm_pc = "alerting"
       THEN AfterAlertPackage(result, effects)
       ELSE UNCHANGED <<hm_pc, effects, sinks>>
    /\ UNCHANGED <<snapshot_calls, snap_vars, config>>
    /\ UNCHANGED <<gate_vars, trim_vars, llm_vars, audio_vars, poll_vars, push_vars,
                   notify_vars>>

\* pc.createOffer() returns or raises
AlertCreateOffer ==
    /\ alert_pc = "create_offer"
    /\ \/ /\ alert_pc' = "set_local"
          /\ UNCHANGED <<alert_outcome, alert_failed_at, alert_teardown_calls>>
       \/ AlertFinally("error", "create_offer", alert_session)
    /\ AlertUnchanged(<<alert_ice, alert_sdp, alert_session, alert_result,
                        alert_close_calls, alert_teardown_result, alert_clock,
                        alert_hold_from, alert_returned_at>>)

\* pc.setLocalDescription(offer) returns or raises; on return the gathering
\* loop is entered, and left at once when gathering is already complete
AlertSetLocal ==
    /\ alert_pc = "set_local"
    /\ \/ \E sid \in SessionIds, ice \in {"gathering", "complete"} :
            /\ alert_sdp' = OfferSdp(sid)
            /\ alert_ice' = ice
            /\ alert_pc' = IF ice_gathering_done(ice) THEN "exchange" ELSE "ice_wait"
            /\ UNCHANGED <<alert_outcome, alert_failed_at, alert_teardown_calls>>
       \/ /\ AlertFinally("error", "set_local", alert_session)
          /\ UNCHANGED <<alert_sdp, alert_ice>>
    /\ AlertUnchanged(<<alert_session, alert_result, alert_close_calls,
                        alert_teardown_result, alert_clock, alert_hold_from,
                        alert_returned_at>>)

\* the ICE agent finishes gathering candidates
AlertIceComplete ==
    /\ alert_pc = "ice_wait"
    /\ alert_ice = "gathering"
    /\ alert_ice' = "complete"
    /\ AlertUnchanged(<<alert_pc, alert_sdp, alert_session, alert_outcome, alert_result,
                        alert_failed_at, alert_teardown_calls, alert_close_calls,
                        alert_teardown_result, alert_clock, alert_hold_from,
                        alert_returned_at>>)

\* asyncio.sleep(0.1) returns with gathering complete: the offer is sent
AlertIcePoll ==
    /\ alert_pc = "ice_wait"
    /\ ice_gathering_done(alert_ice)
    /\ alert_pc' = "exchange"
    /\ AlertUnchanged(<<alert_ice, alert_sdp, alert_session, alert_outcome, alert_result,
                        alert_failed_at, alert_teardown_calls, alert_close_calls,
                        alert_teardown_result, alert_clock, alert_hold_from,
                        alert_returned_at>>)

\* doorbell.generate_webrtc_stream(local_sdp) returns the answer or raises
AlertExchange ==
    /\ alert_pc = "exchange"
    /\ \/ /\ alert_session' = session_id_of(alert_sdp)
          /\ alert_pc' = "set_remote"
          /\ UNCHANGED <<alert_outcome, alert_failed_at, alert_teardown_calls>>
       \/ /\ AlertFinally("error", "exchange", alert_session)
          /\ UNCHANGED alert_session
    /\ AlertUnchanged(<<alert_ice, alert_sdp, alert_result, alert_close_calls,
                        alert_teardown_result, alert_clock, alert_hold_from,
                        alert_returned_at>>)

\* pc.setRemoteDescription(answer) returns or raises; on return the hold
\* asyncio.sleep(duration + 0.5) is entered
AlertSetRemote ==
    /\ alert_pc = "set_remote"
    /\ \/ /\ alert_pc' = "hold"
          /\ alert_hold_from' = alert_clock
          /\ UNCHANGED <<alert_outcome, alert_failed_at, alert_teardown_calls>>
       \/ /\ AlertFinally("error", "set_remote", alert_session)
          /\ UNCHANGED alert_hold_from
    /\ AlertUnchanged(<<alert_ice, alert_sdp, alert_session, alert_result,
                        alert_close_calls, alert_teardown_result, alert_clock,
                        alert_returned_at>>)

\* the hold has run its time: `return True`
AlertHoldDone ==
    /\ alert_pc = "hold"
    /\ alert_clock - alert_hold_from >= HoldTicks
    /\ AlertFinally("held", "none", alert_session)
    /\ AlertUnchanged(<<alert_ice, alert_sdp, alert_session, alert_result,
                        alert_close_calls, alert_teardown_result, alert_clock,
                        alert_hold_from, alert_returned_at>>)

\* the task is cancelled while it sleeps in the hold: asyncio.sleep raises
\* CancelledError, which `except Exception` does not catch
AlertHoldCancelled ==
    /\ alert_pc = "hold"
    /\ alert_clock - alert_hold_from < HoldTicks
    /\ AlertFinally("cancelled", "hold", alert_session)
    /\ AlertUnchanged(<<alert_ice, alert_sdp, alert_session, alert_result,
                        alert_close_calls, alert_teardown_result, alert_clock,
                        alert_hold_from, alert_returned_at>>)

\* doorbell.close_webrtc_stream(session_id) returns or raises; an exception
\* that left the finally block would end the call
AlertTeardown ==
    /\ alert_pc = "teardown"
    /\ \E r \in TeardownOutcomes :
         /\ alert_teardown_result' = r
         /\ IF teardown_exit(r) = "continue"
            THEN /\ alert_pc' = "close"
                 /\ UNCHANGED <<alert_result, alert_returned_at>>
                 /\ AlertUnchanged(<< >>)
            ELSE /\ alert_pc' = "returned"
                 /\ alert_result' = "raised"
                 /\ alert_returned_at' = alert_clock
                 /\ AlertReturns("raised")
    /\ UNCHANGED <<alert_ice, alert_sdp, alert_session, alert_outcome,
                   alert_failed_at, alert_teardown_calls, alert_close_calls,
                   alert_clock, alert_hold_from>>

\* pc.close() returns: the call returns, or the pending exception goes on
AlertClose ==
    /\ alert_pc = "close"
    /\ alert_pc' = "returned"
    /\ alert_close_calls' = alert_close_calls + 1
    /\ alert_result' = alert_return(alert_outcome)
    /\ alert_returned_at' = alert_clock
    /\ AlertReturns(alert_result')
    /\ UNCHANGED <<alert_ice, alert_sdp, alert_session, alert_outcome,
                   alert_failed_at, alert_teardown_calls, alert_teardown_result,
                   alert_clock, alert_hold_from>>

\* the call is waiting for something outside the process
AlertWaiting ==
    \/ alert_pc = "ice_wait" /\ alert_ice # "complete"
    \/ alert_pc = "exchange"
    \/ alert_pc = "hold" /\ alert_clock - alert_hold_from < HoldTicks
    \/ alert_pc = "teardown"

\* time passes
AlertTick ==
    /\ AlertWaiting
    /\ alert_clock < MaxAlertTicks
    /\ alert_clock' = alert_clock + 1
    /\ AlertUnchanged(<<alert_pc, alert_ice, alert_sdp, alert_session, alert_outcome,
                        alert_result, alert_failed_at, alert_teardown_calls,
                        alert_close_calls, alert_teardown_result, alert_hold_from,
                        alert_returned_at>>)

AlertNext ==
    \/ AlertStart
    \/ AlertCreateOffer
    \/ AlertSetLocal
    \/ AlertIceComplete
    \/ AlertIcePoll
    \/ AlertExchange
    \/ AlertSetRemote
    \/ AlertHoldDone
    \/ AlertHoldCancelled
    \/ AlertTeardown
    \/ AlertClose
    \/ AlertTick

\* a detector on which play_alert_through_doorbell is called
SpecAlert == PipeInit /\ [][AlertNext]_vars

-----------------------------------------------------------------------------
(* The notifier: PackageThiefDetector.__init__ creates an EmailNotifier when *)
(* the settings allow it, and a notify_* method of that object, called by    *)
(* whoever holds the detector, runs EmailNotifier._send, which hands the     *)
(* message to the mail transport.  What handle_motion does with the notifier *)
(* is part of AfterAnalysisPackage and AfterAlertPackage.                    *)

\* notify_* calls up to which a detector is followed
MaxNotifyCalls == 6

\* os.environ.get("EMAIL_APP_PASSWORD"): unset, empty, or a password
Passwords == {"None", "", "pw"}

\* len(CONFIG["notification_recipients"])
RecipientCounts == 0..2

\* how the block `with smtplib.SMTP(...) as server:` can end
TransportOutcomes == {"sent", "connect_raised", "starttls_raised", "login_raised",
                      "sendmail_raised"}

\* the methods of EmailNotifier that send a message
NotifyKinds == {"notify_thief_detected", "notify_package_delivered"}

\* `if CONFIG["email_app_password"] and CONFIG["notification_recipients"]:`
notifier_configured(password, recipients) ==
    password \notin {"None", ""} /\ recipients > 0

\* the interpreter the program runs on, as far as it matters to the
\* notifier: CPython up to 3.12, or CPython 3.13
PythonVersions == {"3.12", "3.13"}

\* the description handed to a notify_* method: ASCII text, text with
\* non-ASCII characters, text holding a lone surrogate of \udc80..\udcff
\* (json.loads makes one of an escaped \udc80 in the classifier's answer),
\* or text holding another lone surrogate, such as \ud800
Descriptions == {"ascii", "non_ascii", "escape_surrogate", "lone_surrogate"}

\* msg.attach(MIMEText(body, "plain")): the body is encoded as us-ascii, else
\* as utf-8.  A lone surrogate has no encoding and MIMEText raises, except
\* that CPython 3.13 encodes the body with surrogateescape, which takes the
\* surrogates \udc80..\udcff
message_built(python, description) ==
    CASE description = "lone_surrogate" -> FALSE
      [] description = "escape_surrogate" -> python = "3.13"
      [] OTHER -> TRUE

\* the exception a failing step of the SMTP block raises
transport_error(transport) ==
    CASE transport = "connect_raised" -> "OSError"
      [] transport = "starttls_raised" -> "SMTPNotSupportedError"
      [] transport = "login_raised" -> "SMTPAuthenticationError"
      [] transport = "sendmail_raised" -> "SMTPRecipientsRefused"
      [] OTHER -> "none"

\* a handler for the classes that derive from smtplib.SMTPException only
send_catches_smtp_only(e) ==
    e \in {"SMTPNotSupportedError", "SMTPAuthenticationError", "SMTPRecipientsRefused"}

\* `except Exception as e:` of the try block of _send: the classes that
\* derive from Exception
send_catches(e) ==
    e \in {"OSError", "UnicodeEncodeError", "SMTPNotSupportedError",
           "SMTPAuthenticationError", "SMTPRecipientsRefused"}

\* _send(subject, body): the message is built before the try block, so an
\* exception of MIMEText leaves _send; inside the try block the message is
\* handed to the transport and an exception the handler catches is logged
send_outcome(python, description, transport) ==
    IF ~message_built(python, description)
    THEN [transport |-> "none", result |-> "raised", error |-> "UnicodeEncodeError"]
    ELSE IF transport = "sent"
    THEN [transport |-> transport, result |-> "sent", error |-> "none"]
    ELSE [transport |-> transport,
          result |-> IF send_catches(transport_error(transport))
                     THEN "logged" ELSE "raised",
          error |-> transport_error(transport)]

\* detector.notifier.notify_thief_detected(description) or
\* notify_package_delivered(description), called on the notifier the detector
\* holds: the call runs _send to its end.  A detector whose notifier is None
\* has no object to call.
NotifyStep ==
    \E kind \in NotifyKinds, description \in Descriptions,
       transport \in TransportOutcomes :
        LET out == send_outcome(notify_env.python, description, transport)
        IN /\ notify_calls < MaxNotifyCalls
           /\ notifier # "None"
           /\ notify_calls' = notify_calls + 1
           /\ notify_last' = [kind |-> kind, description |-> description,
                              transport |-> out.transport, result |-> out.result,
                              error |-> out.error]
           /\ UNCHANGED <<notify_env, notifier>>
           /\ UNCHANGED <<gate_vars, trim_vars, llm_vars, pipe_vars, audio_vars,
                          poll_vars, push_vars, alert_vars>>

\* PackageThiefDetector.__init__ with the settings of the environment
NotifyInit ==
    /\ program = "push"
    /\ now = 0
    /\ last_motion_time = << >>
    /\ last_ding_ids = [d \in Devices |-> {}]
    /\ seen_table = [d \in Devices |-> EmptyTable]
    /\ accepted_at = [d \in Devices |-> {}]
    /\ gate_result = NoResult
    /\ last_reject = NoReject
    /\ last_skip_at = Never
    /\ TrimIdle
    /\ LlmIdle
    /\ PipeIdle
    /\ AudioIdle
    /\ PollIdle
    /\ PushIdle
    /\ AlertIdle
    /\ notify_env \in [password : Passwords, recipients : RecipientCounts,
                      python : PythonVersions]
    /\ notifier = IF notifier_configured(notify_env.password, notify_env.recipients)
                  THEN "EmailNotifier" ELSE "None"
    /\ notify_calls = 0
    /\ notify_last = NoNotice

NotifyNext == NotifyStep

SpecNotify == NotifyInit /\ [][NotifyNext]_vars

\* one session with the doorbell at a time: a capture pipeline, with the alert
\* call handle_motion makes, or an alert call on its own
SessionNext ==
    \/ (alert_pc = "idle" \/ hm_pc \notin {"idle", "alerting"}) /\ PipeNext
    \/ hm_pc \in {"idle", "alerting"} /\ AlertNext

SpecSession == PipeInit /\ [][SessionNext]_vars

-----------------------------------------------------------------------------
(* Properties of the audio source *)

\* C16 as claimed: frame N (counted from 0) is not returned earlier than
\* N x 20 ms after the first recv call, inside the buffer and past its end.
C16_AsClaimed ==
    frames_returned > 0 =>
        (last_frame.at - start_time) * sample_rate
            >= last_frame.index * samples_per_frame * TicksPerSecond

\* C17: every frame recv returns carries exactly 960 samples, a short last
\* chunk being filled up with zeros, and every frame returned once position
\* has reached the end of the buffer is all zeros; recv goes on returning
\* frames there.
C17_FramesFull ==
    frames_returned > 0 =>
        /\ last_frame.chunk.data + last_frame.chunk.zeros = samples_per_frame
        /\ last_frame.from >= samples_len => last_frame.chunk.data = 0
        /\ last_frame.pts <= samples_len

\* a silence frame returned after a buffer whose last chunk was short
C17_Witness ==
    /\ samples_len = 1500
    /\ last_frame.index >= 3
    /\ last_frame.from = samples_len
    /\ last_frame.chunk = [data |-> 0, zeros |-> samples_per_frame]

-----------------------------------------------------------------------------
(* Properties of the monitoring loop *)

\* C18 as claimed: the scan loop never waits for a pipeline: while the
\* capture and classification of an accepted signal are in progress the loop
\* is not suspended on that handle_motion call; it is suspended only in the
\* inter-scan sleep or in a fetch of device data.
C18_AsClaimed ==
    hm_pc \in PipelineStages => scan_pc \in {"sleep", "refresh", "history"}

\* the gate state of one device: its last-triggered time and its seen-set
DeviceGate(d) ==
    <<IF d \in DOMAIN last_motion_time THEN last_motion_time[d] ELSE Never,
      last_ding_ids[d]>>

\* C31: a gate decision for one device, accepted or rejected, leaves the
\* last-triggered time and the seen-set of every other device unchanged: a
\* step changes the gate state of the device of its decision only.
C31_OtherDevicesUntouched ==
    [][\A b \in Devices :
          DeviceGate(b)' # DeviceGate(b) => gate_result'.dev = b]_vars

\* D1 was accepted, and a signal of D2 inside D1's window was accepted too
C31_Witness ==
    /\ gate_result.dev = "D2"
    /\ gate_result.accepted
    /\ DOMAIN last_motion_time = Devices
    /\ last_motion_time["D2"] - last_motion_time["D1"] < motion_cooldown
    /\ last_ding_ids["D1"] # {}

\* the loop goes on with the doorbell after the one it is checking, or with
\* the sleep that ends the scan
GoesToNextDoorbell ==
    IF scan_dev < Len(DoorbellOrder)
    THEN scan_dev' = scan_dev + 1 /\ scan_pc' = "history"
    ELSE scan_pc' = "sleep"

\* C32: an exception raised while one device is checked (its history fetch
\* or its pipeline) is caught per device: no step of the check of a device
\* ends the loop, and the step in which a pipeline raises goes on to the next
\* device of the same scan, or to the sleep before the next scan.
C32_CaughtPerDevice ==
    [][(scan_pc \in {"history", "events", "handle_motion"}) =>
          /\ scan_pc' # "stopped"
          /\ ((hm_pc = "capturing" /\ hm_pc' = "raised") => GoesToNextDoorbell)]_vars

\* the pipeline of the first doorbell raised and the second doorbell's
\* events are gone through in the same scan
C32_Witness ==
    /\ hm_pc = "raised"
    /\ scan_dev = 2
    /\ scan_pc = "events"
    /\ scan_history # << >>

\* C33 as claimed: no error inside the scan loop ends monitoring; when the
\* refresh at the top of a scan raises, a later scan is still made.
C33_AsClaimed == scan_pc # "stopped"

\* C19 as claimed: in push mode, while the pipeline of one device is in its
\* capture or its classification step, a motion signal delivered for
\* another device is ingested (on_event runs and its task starts) without
\* waiting for that step to end.
C19_AsClaimed ==
    \A d1, d2 \in Devices :
        (/\ d1 # d2
         /\ \E i \in TaskSlots : push_task[d1][i] \in {"capturing", "classifying"}
         /\ push_pending[d2] = "motion") => ENABLED OnEvent(d2)

\* C21: in push mode the gate's read and write of last_motion_time run in
\* one step of a task, with no other task between them: of the signals of one
\* device that are dispatched inside one cooldown window exactly one is
\* accepted, also when their tasks are alive at the same time.
C21_OneAcceptedPerWindow ==
    \A d \in Devices :
        /\ \A i, j \in DOMAIN push_accepts[d] :
              i < j => push_accepts[d][j] - push_accepts[d][i] >= motion_cooldown
        /\ (push_last.dev = d) =>
              \E i \in DOMAIN push_accepts[d] :
                  /\ push_accepts[d][i] <= push_last.at
                  /\ push_last.at - push_accepts[d][i] < motion_cooldown

\* two tasks of one device ran their gates at the same time: the first was
\* accepted and is still capturing, the second was rejected
C21_Witness ==
    /\ push_task["D1"][1] = "capturing"
    /\ push_last = [dev |-> "D1", at |-> now]
    /\ push_accepts["D1"] = <<now>>

\* the result get_snapshot owes its caller for the way its try block was left
SnapshotOwed == IF snap_outcome = "frame" THEN "frame" ELSE "None"

\* play_alert_through_doorbell got as far as creating its peer connection
AlertHadConnection == alert_failed_at \notin {"sound_file", "audio_load"}

\* the tasks of a device whose get_snapshot session is open
OpenSessions(d) == {i \in TaskSlots : push_task[d][i] = "capturing"}

\* C34: two media sessions are open against one device at the same time only
\* when the pipeline that was accepted first has been running for the
\* cooldown window or longer; pipelines that end inside the window after
\* their acceptance never overlap.
C34_OverlapOnlyPastCooldown ==
    \A d \in Devices :
        Cardinality(OpenSessions(d)) >= 2 =>
            /\ Len(push_accepts[d]) >= 2
            /\ now - push_accepts[d][Len(push_accepts[d]) - 1] >= motion_cooldown

\* a capture of D1 is still open a cooldown window after its acceptance, and
\* the next signal of D1 has opened a second one
C34_Witness ==
    /\ OpenSessions("D1") = TaskSlots
    /\ Len(push_accepts["D1"]) = 2
    /\ now - push_accepts["D1"][1] >= motion_cooldown

C37_RejectKeepsStamp ==
    \A d \in Devices :
        /\ d \in DOMAIN last_motion_time <=> push_accepts[d] # << >>
        /\ push_accepts[d] # << >> =>
              last_motion_time[d] = push_accepts[d][Len(push_accepts[d])]

\* D1 was accepted, rejected half a window later, and accepted again one
\* window after its first acceptance
C37_Witness ==
    /\ push_accepts["D1"] = <<0, motion_cooldown>>
    /\ push_last.dev = "D1"
    /\ push_last.at \in 1..(motion_cooldown - 1)

\* C38: the cooldown is consumed when the trigger is accepted, not when its
\* capture succeeds: a failed capture leaves the stamp in place, and the
\* capture that starts after a failed one is for a device that is outside
\* its cooldown window, so a signal for the device whose capture failed is
\* rejected until the window has passed.
C38_ConsumedAtAcceptance ==
    [][/\ (snap_pc # "returned" /\ snap_pc' = "returned" /\ snapshot' = "None") =>
              /\ last_motion_time' = last_motion_time
              /\ \E d \in DOMAIN last_motion_time :
                     last_motion_time[d] = snap_called_at
       /\ (snap_pc = "returned" /\ snapshot = "None" /\ hm_pc # "capturing"
              /\ hm_pc' = "capturing") =>
              \E d \in Devices :
                  /\ d \in DOMAIN last_motion_time =>
                        now - last_motion_time[d] >= motion_cooldown
                  /\ d \in DOMAIN last_motion_time'
                  /\ last_motion_time'[d] = now
                  /\ \A k \in DOMAIN last_motion_time \ {d} :
                        last_motion_time'[k] = last_motion_time[k]]_vars

\* D1 was accepted at 0, its capture timed out, and the next signal, again
\* for D1 and inside the window, was rejected
C38_Witness ==
    /\ hm_pc = "rejected"
    /\ snap_pc = "returned"
    /\ snapshot = "None"
    /\ snap_outcome = "timeout"
    /\ DOMAIN last_motion_time = {"D1"}
    /\ last_motion_time["D1"] = 0
    /\ now = frame_timeout

\* C39 as claimed: from one returned frame to the next the pts grows by
\* exactly samples_per_frame, silence frames included, and position never
\* exceeds the buffer length.
C39_AsClaimed ==
    [][(frames_returned > 0 /\ frames_returned' = frames_returned + 1) =>
          /\ last_frame'.pts = last_frame.pts + samples_per_frame
          /\ position' <= samples_len]_vars

\* C22: an error raised by close_webrtc_stream never changes the result:
\* get_snapshot returns the frame or failure its try block produced and
\* play_alert_through_doorbell returns the boolean its try block produced,
\* whether the teardown call returned or raised, and the teardown error does
\* not reach the caller.
C22_TeardownErrorSwallowed ==
    /\ (snap_pc = "returned" /\ teardown_result \in TeardownOutcomes) =>
          snapshot = SnapshotOwed
    /\ (alert_pc = "returned" /\ alert_teardown_result \in TeardownOutcomes) =>
          alert_result = alert_return(alert_outcome)

\* get_snapshot read a frame, close_webrtc_stream raised, the frame is returned
C22_Witness ==
    /\ snap_pc = "returned"
    /\ teardown_result = "raised"
    /\ snapshot = "frame"

\* C23: on every exit path of get_snapshot and play_alert_through_doorbell
\* that had a peer connection, pc.close() is called exactly once, and only
\* after the teardown call (when one is made) has ended.
C23_ClosedOnceAfterTeardown ==
    /\ snap_pc = "returned" => pc_close_calls = 1
    /\ snap_pc \in {"teardown", "close"} => pc_close_calls = 0
    /\ (pc_close_calls = 1 /\ teardown_calls = 1) => teardown_result \in TeardownOutcomes
    /\ (alert_pc = "returned" /\ AlertHadConnection) => alert_close_calls = 1
    /\ alert_pc \in {"teardown", "close"} => alert_close_calls = 0
    /\ (alert_close_calls = 1 /\ alert_teardown_calls = 1) =>
          alert_teardown_result \in TeardownOutcomes

\* the frame wait timed out, the teardown call raised, the connection was
\* closed once
C23_Witness ==
    /\ snap_pc = "returned"
    /\ snap_outcome = "timeout"
    /\ teardown_calls = 1
    /\ teardown_result = "raised"
    /\ pc_close_calls = 1

\* a step in which handle_motion starts a capture
PipelineStarts == snap_pc' = "create_offer" /\ snap_pc # "create_offer"

\* a step in which the gate stamps a device with the current time
GateStamps ==
    \E d \in Devices :
        /\ d \in DOMAIN last_motion_time'
        /\ last_motion_time'[d] = now
        /\ last_motion_time' # last_motion_time

\* C24: a signal the gate rejects causes no further step of the pipeline: a
\* capture is started only in a step in which the gate accepts, and the step
\* that rejects a signal leaves the capture, the classifier and every sink
\* as they were.
C24_RejectedCausesNothing ==
    [][/\ PipelineStarts => GateStamps
       /\ hm_pc' = "rejected" =>
             UNCHANGED <<snapshot_calls, effects, sinks, snap_vars, llm_vars>>]_vars

\* a pipeline ran a capture to its end, and the next signal was rejected
C24_Witness ==
    /\ hm_pc = "rejected"
    /\ snapshot_calls = 1
    /\ pc_close_calls = 1
    /\ snap_pc = "returned"

\* the steps of the pipeline taken so far are in the order gate, capture,
\* classification, side effects
StepsInOrder ==
    /\ snapshot_calls > 0 => last_motion_time # << >>
    /\ hm_pc = "capturing" => effects = {}
    /\ "classify" \in effects => snap_pc = "returned" /\ snapshot = "frame"
    /\ effects \cap (SuspiciousCalls \cup DeliveryCalls) # {} =>
          "classify" \in effects /\ llm_result.kind = "return"

\* C25: within one pipeline the steps occur in the order gate, capture,
\* classification, side effects: the classifier is called only after a frame
\* was returned, a sink only after the classifier returned, and a pipeline
\* that has ended takes no further step (only a new signal starts a capture).
C25_StepsInOrder ==
    [][/\ StepsInOrder'
       /\ (hm_pc # "capturing" /\ ~PipelineStarts) =>
             UNCHANGED <<snapshot_calls, effects, sinks, snap_vars, llm_vars>>]_vars

\* the single file captured a frame, classified it as suspicious and saved it
C25_Witness ==
    /\ hm_pc = "done"
    /\ snapshot = "frame"
    /\ llm_result.kind = "return"
    /\ "save_locally" \in effects

\* C26 as claimed: in the suspicious branch a sink that raises does not
\* abort the sinks after it: handle_motion goes on to its end, the local save
\* is attempted, and the thief notification is sent when a notifier is
\* configured.
C26_AsClaimed ==
    (PipelineEnded /\ "raised" \in {sinks.upload, sinks.save}) =>
        /\ hm_pc = "done"
        /\ "save_locally" \in effects
        /\ config.notifier => "notify_thief_detected" \in effects

\* C27 as claimed: when play_alert_through_doorbell fails at any step, the
\* interrupted hold included, it returns False without raising.
C27_AsClaimed ==
    (alert_pc = "returned" /\ alert_failed_at # "none") => alert_result = "False"

\* C28 as claimed: once the answer was applied and duration + 0.5 s have
\* passed since, the call has returned.
C28_AsClaimed ==
    (alert_outcome = "held" /\ alert_clock - alert_hold_from > HoldTicks) =>
        alert_pc = "returned"

\* C29: per capture session the frame future is resolved at most once: once
\* it holds a result, an exception or the cancellation of the timeout, no
\* later frame, second track or late error changes it, and a timeout that
\* was reported stays the failure get_snapshot returns.
C29_ResolvedAtMostOnce ==
    [][(frame_future # "pending" /\ ~PipelineStarts) =>
          /\ frame_future' = frame_future
          /\ snap_outcome = "timeout" =>
                /\ snap_outcome' = "timeout"
                /\ snap_pc' = "returned" => snapshot' = "None"]_vars

\* the wait timed out and the fifth frame of a track arrived afterwards;
\* get_snapshot returned None
C29_Witness ==
    /\ snap_pc = "returned"
    /\ snap_outcome = "timeout"
    /\ frame_future = "cancelled"
    /\ snapshot = "None"
    /\ cap_reads[1] = SkipFrames
    /\ cap_task[2] = "done"

\* C30: generate_webrtc_stream is called, in get_snapshot and in
\* play_alert_through_doorbell, only while pc.iceGatheringState is "complete".
C30_OfferSentWhenComplete ==
    /\ snap_pc = "exchange" => ice_state = "complete"
    /\ alert_pc = "exchange" => alert_ice = "complete"

\* play_alert_through_doorbell waited in the gathering loop and then sent
\* its offer
C30_Witness ==
    /\ alert_pc = "exchange"
    /\ alert_ice = "complete"
    /\ alert_clock > 0

-----------------------------------------------------------------------------
(* Properties of the classifier response *)

\* every token of the text is one of `tokens`
OnlyTokens(text, tokens) == \A i \in DOMAIN text : text[i] \in tokens

\* the payload p with nothing but line breaks around it
Padded(text, p) ==
    \E k \in DOMAIN text :
        /\ k + Len(p) - 1 <= Len(text)
        /\ SubSeq(text, k, k + Len(p) - 1) = p
        /\ OnlyTokens(SubSeq(text, 1, k - 1), {"W"})
        /\ OnlyTokens(SubSeq(text, k + Len(p), Len(text)), {"W"})

\* the payload p inside a fence that opens with `open`, with line breaks
\* inside the fence and line breaks or prose outside it
Fenced(text, open, p) ==
    \E i, j \in DOMAIN text :
        /\ i + Len(open) <= j
        /\ SubSeq(text, i, i + Len(open) - 1) = open
        /\ text[j] = "F"
        /\ Padded(SubSeq(text, i + Len(open), j - 1), p)
        /\ OnlyTokens(SubSeq(text, 1, i - 1), {"W", "X"})
        /\ OnlyTokens(SubSeq(text, j + 1, Len(text)), {"W", "X"})

\* the response is the payload p in one of the three forms
Wrapped(text, p) ==
    Fenced(text, FenceJson, p) \/ Fenced(text, Fence, p) \/ Padded(text, p)

\* what the analysis function that was called gives for the bare payload p
BareResult(p) ==
    IF llm_fn = "analyze_image_for_theft" THEN analyze_image_for_theft("ok", p)
    ELSE analyze_image_with_openai("ok", p)

\* C36 as claimed: for every structured payload P, the response that holds
\* P in a json-tagged fence, in a plain fence or with no fence (line breaks
\* around P, and line breaks or prose outside the fence) gives the result
\* that P alone gives.
C36_AsClaimed ==
    \A p \in Payloads :
        (llm_fn # "none" /\ api_outcome = "ok" /\ Wrapped(response_text, p)) =>
            llm_result = BareResult(p)

\* the classifier answered with a text that does not parse as JSON
Unparseable ==
    api_outcome = "ok" /\ ~json_loads_ok(extract_json(response_text))

\* C10 as claimed: for every response text that cannot be parsed as JSON,
\* analyze_image_for_theft returns the safe default (is_suspicious false,
\* confidence low) and raises nothing.
C10_AsClaimed ==
    (llm_fn = "analyze_image_for_theft" /\ Unparseable) =>
        /\ llm_result.kind = "return"
        /\ llm_result.value.is_suspicious = FALSE
        /\ llm_result.value.confidence = "low"

\* the single-file detector's analyze_image_with_openai does return the safe
\* default for every such text
LegacySafeDefault ==
    (llm_fn = "analyze_image_with_openai" /\ Unparseable) =>
        llm_result = Returns(SafeDefault)

=============================================================================
